---- MODULE Spec2Model ----
(***************************************************************************)
(* Model of the video prompt enhancement wizard of GenBoard1              *)
(* (MVP-Feature-PromptEnhancing): the PromptEnhancementService session     *)
(* kept in st.session_state.enhancement_session, the handlers of the       *)
(* Streamlit script that drive it, and the service's operations.           *)
(*                                                                         *)
(* A text is a sequence of tokens; the token " " is whitespace.  An        *)
(* optional value (None or a value v) is <<>> or <<v>>.  A dict is a       *)
(* function whose domain is its key set.  The timestamp of a history entry *)
(* is not modelled; start_time is the reading of the clock at the start.   *)
(***************************************************************************)
EXTENDS Integers, Sequences, FiniteSets, TLC

VARIABLES
    enhancement_session,  \* st.session_state.enhancement_session
    client,               \* st.session_state.client is set (TRUE) or None (FALSE)
    api_key,              \* st.session_state.api_key is non-empty
    mode,                 \* st.session_state.mode
    confirm_reset,        \* st.session_state.confirm_reset, FALSE while the key is absent
    enhanced_prompts,     \* st.session_state.enhanced_prompts
    now,                  \* the clock read by datetime.now()
    op,                   \* the last interaction: its name, inputs and gateway calls
    mark,                 \* what the interaction before left, for a round trip
    saved_enhancement,    \* st.session_state.saved_enhancement, None while the key is absent
    counters,             \* global_counter.counters
    disk,                 \* the file global_counters.json
    loaded_from,          \* the file that GlobalCounter() found, None before construction
    ledger_log,           \* the calls made on global_counter since construction
    ledger_ret,           \* the last call on global_counter and what it returned
    pc,                   \* per script thread: its position inside increment_chat_count
    tmp,                  \* per script thread: the value it read from counters
    gw,                   \* the last request to a gateway handler and what it left
    requests,             \* the number of requests made to the gateway handlers
    history_shared,       \* saved_enhancement["iteration_history"] is the session's list object
    messages,             \* st.session_state.messages
    enhanced_prompt_to_use, \* st.session_state.enhanced_prompt_to_use, None while absent
    default_prompt,       \* the value the video prompt had in the last run of handle_video_generation
    thread_messages,      \* per script thread: the video messages of its session
    google_api_key        \* st.session_state.google_api_key is non-empty

\* state that only the ledger, the gateway and the video specifications change
sideVars == <<loaded_from, ledger_log, ledger_ret, pc, tmp, gw, requests,
              messages, enhanced_prompt_to_use, default_prompt, thread_messages,
              google_api_key>>

\* ... and the saved export, which no interaction but "Save Progress" assigns
otherVars == <<saved_enhancement, history_shared, sideVars>>

vars == <<enhancement_session, client, api_key, mode, confirm_reset,
          enhanced_prompts, now, op, mark, saved_enhancement, counters, disk,
          loaded_from, ledger_log, ledger_ret, pc, tmp, gw, requests,
          history_shared, messages, enhanced_prompt_to_use, default_prompt,
          thread_messages, google_api_key>>

----------------------------------------------------------------------------
(* Bounds *)

\* longest iteration_history
MaxHist == 7
\* sessions started
MaxStarts == 2
\* history entries beyond one per step: repeated submissions plus suggestions
MaxExtra == 1
\* last reading of the clock where it ticks between interactions
MaxClock == 3
\* increments made on global_counter
MaxIncrements == 2
\* the requests made to the gateway handlers
MaxRequests == 1
\* the prompts handed to the video view
MaxHandoffs == 1

----------------------------------------------------------------------------
(* Values *)

None == <<>>
Some(v) == <<v>>

\* Python truthiness of an optional text: None and "" are falsy
Truthy(o) == o # None /\ Len(o[1]) > 0

EmptyDict == [k \in {} |-> <<>>]

DictSet(d, key, v) == [k \in (DOMAIN d) \cup {key} |-> IF k = key THEN v ELSE d[k]]

RECURSIVE lstrip(_)
lstrip(t) == IF t # <<>> /\ Head(t) = " " THEN lstrip(Tail(t)) ELSE t

RECURSIVE rstrip(_)
rstrip(t) == IF t # <<>> /\ t[Len(t)] = " " THEN rstrip(SubSeq(t, 1, Len(t) - 1)) ELSE t

\* str.strip()
strip(t) == rstrip(lstrip(t))

\* list(REFINEMENT_STAGES.keys())
Stages == <<"concept", "mood", "subjects", "visual", "polish">>

StageSet == {Stages[i] : i \in 1..Len(Stages)}

\* stages.index(stage), 0-based
StageIndex(stage) == (CHOOSE i \in 1..Len(Stages) : Stages[i] = stage) - 1

\* stages[i] with Python's indexing: a negative index counts from the end
StageAt(i) == IF i < 0 THEN Stages[Len(Stages) + i + 1] ELSE Stages[i + 1]

\* EXAMPLE_PROMPTS: the prompt text of each example
ExamplePrompts == [cinematic_nature |-> <<"nature">>,
                   urban_lifestyle |-> <<"urban">>,
                   product_showcase |-> <<"product">>]

----------------------------------------------------------------------------
(* Inputs *)

\* what the user may have typed as an idea or a video prompt
IdeaTexts == {<<>>, <<" ">>, <<"i">>}

\* the examples whose "Use as Template" button is clicked
TemplateKeys == {"cinematic_nature"}

\* outcome of client.chat.completions.create: a content, or an exception with a message
Ok(t) == [ok |-> TRUE, text |-> t]
Raise(m) == [ok |-> FALSE, text |-> m]

\* the text entered to revise the answer of a stage
RevisedText == <<" ", "b">>

\* what the user may have entered at a stage (text, "Get AI suggestions" checkbox)
\* and what the suggestion call then does
StageInputs ==
    {[text |-> <<>>, use_ai |-> TRUE, sugg |-> Ok(<<"s">>)],
     [text |-> <<" ">>, use_ai |-> TRUE, sugg |-> Ok(<<"s">>)],
     [text |-> <<"a">>, use_ai |-> FALSE, sugg |-> Ok(<<"s">>)],
     [text |-> RevisedText, use_ai |-> FALSE, sugg |-> Ok(<<"s">>)],
     [text |-> <<"a">>, use_ai |-> TRUE, sugg |-> Ok(<<"s">>)],
     [text |-> <<"a">>, use_ai |-> TRUE, sugg |-> Raise(<<"down">>)]}

\* the texts and checkbox values process_stage_input is called with directly
EngineInputs ==
    {[text |-> <<"a">>, use_ai |-> FALSE, sugg |-> Ok(<<"s">>)],
     [text |-> <<"a">>, use_ai |-> TRUE, sugg |-> Ok(<<"s">>)],
     [text |-> <<"a">>, use_ai |-> TRUE, sugg |-> Raise(<<"down">>)]}

SynthesisOutcomes == {Ok(<<" ">>), Ok(<<"p", " ">>), Raise(<<"down">>)}

----------------------------------------------------------------------------
(* PromptEnhancementService *)

\* the session created by init_enhancement_session when none exists
DefaultSession ==
    [active |-> FALSE,
     current_stage |-> "concept",
     stages_data |-> EmptyDict,
     iteration_history |-> <<>>,
     start_time |-> None,
     final_prompt |-> None]

\* get_enhancement_suggestion: the content, or the error text of a caught exception
get_enhancement_suggestion(outcome) ==
    IF outcome.ok THEN outcome.text
    ELSE <<"Error getting suggestion: ">> \o outcome.text

\* generate_final_prompt: the stripped content, or the error text of a caught exception
generate_final_prompt(outcome) ==
    IF outcome.ok THEN strip(outcome.text)
    ELSE <<"Error generating final prompt: ">> \o outcome.text

\* start_enhancement_flow that appends the session_started entry to the old history
start_enhancement_flow_keeps_history(s, initial_idea, t) ==
    [s EXCEPT !.active = TRUE,
              !.current_stage = "concept",
              !.stages_data = [k \in {"initial_idea"} |-> initial_idea],
              !.iteration_history = Append(@, [action |-> "session_started",
                                               data |-> [initial_idea |-> initial_idea]]),
              !.start_time = Some(t),
              !.final_prompt = None]

\* start_enhancement_flow that leaves current_stage where the earlier session stood
start_enhancement_flow_keeps_stage(s, initial_idea, t) ==
    [s EXCEPT !.active = TRUE,
              !.stages_data = [k \in {"initial_idea"} |-> initial_idea],
              !.iteration_history = <<[action |-> "session_started",
                                       data |-> [initial_idea |-> initial_idea]]>>,
              !.start_time = Some(t),
              !.final_prompt = None]

\* start_enhancement_flow: session.update({...}) at clock reading t
start_enhancement_flow(s, initial_idea, t) ==
    [s EXCEPT !.active = TRUE,
              !.current_stage = "concept",
              !.stages_data = [k \in {"initial_idea"} |-> initial_idea],
              !.iteration_history = <<[action |-> "session_started",
                                       data |-> [initial_idea |-> initial_idea]]>>,
              !.start_time = Some(t),
              !.final_prompt = None]

\* process_stage_input that keeps one stage_completed entry per stage
process_stage_input_one_entry_per_stage(s, stage, user_input, use_ai_suggestion, cl, outcome) ==
    LET kept == SelectSeq(s.iteration_history,
                          LAMBDA e : ~(e.action = "stage_completed" /\ e.stage = stage))
        s1 == [s EXCEPT !.stages_data = DictSet(@, stage, user_input),
                        !.iteration_history = Append(kept,
                            [action |-> "stage_completed",
                             stage |-> stage,
                             data |-> [user_input |-> user_input]])]
    IN  [session |-> s1, ret |-> None, calls |-> <<>>]

\* process_stage_input that moves on to the next stage by itself
process_stage_input_advancing(s, stage, user_input, use_ai_suggestion, cl, outcome) ==
    LET s1 == [s EXCEPT !.stages_data = DictSet(@, stage, user_input),
                        !.iteration_history = Append(@,
                            [action |-> "stage_completed",
                             stage |-> stage,
                             data |-> [user_input |-> user_input]]),
                        !.current_stage =
                            StageAt((StageIndex(stage) + 1) % Len(Stages))]
    IN  [session |-> s1, ret |-> None, calls |-> <<>>]

\* process_stage_input that asks for the suggestion with the answers as they
\* were before the write
process_stage_input_stale_context(s, stage, user_input, use_ai_suggestion, cl, outcome) ==
    LET s1 == [s EXCEPT !.stages_data = DictSet(@, stage, user_input),
                        !.iteration_history = Append(@,
                            [action |-> "stage_completed",
                             stage |-> stage,
                             data |-> [user_input |-> user_input]])]
        ai_suggestion == get_enhancement_suggestion(outcome)
    IN  IF use_ai_suggestion /\ cl
        THEN [session |-> [s1 EXCEPT !.iteration_history = Append(@,
                               [action |-> "ai_suggestion",
                                stage |-> stage,
                                data |-> [suggestion |-> ai_suggestion]])],
              ret |-> Some(ai_suggestion),
              calls |-> <<[call |-> "suggestion", stage |-> stage,
                           user_input |-> user_input,
                           context |-> s.stages_data,
                           ok |-> outcome.ok]>>]
        ELSE [session |-> s1, ret |-> None, calls |-> <<>>]

\* process_stage_input: the session, the suggestion returned and the gateway calls made
process_stage_input(s, stage, user_input, use_ai_suggestion, cl, outcome) ==
    LET s1 == [s EXCEPT !.stages_data = DictSet(@, stage, user_input),
                        !.iteration_history = Append(@,
                            [action |-> "stage_completed",
                             stage |-> stage,
                             data |-> [user_input |-> user_input]])]
        ai_suggestion == get_enhancement_suggestion(outcome)
    IN  IF use_ai_suggestion /\ cl
        THEN [session |-> [s1 EXCEPT !.iteration_history = Append(@,
                               [action |-> "ai_suggestion",
                                stage |-> stage,
                                data |-> [suggestion |-> ai_suggestion]])],
              ret |-> Some(ai_suggestion),
              calls |-> <<[call |-> "suggestion", stage |-> stage,
                           user_input |-> user_input,
                           context |-> s1.stages_data,
                           ok |-> outcome.ok]>>]
        ELSE [session |-> s1, ret |-> None, calls |-> <<>>]

\* generate_final_optimized_prompt without the test of st.session_state.client
generate_final_optimized_prompt_no_client_check(s, cl, outcome) ==
    LET final_prompt == generate_final_prompt(outcome)
    IN  [session |-> [s EXCEPT !.final_prompt = Some(final_prompt),
                               !.iteration_history = Append(@,
                                   [action |-> "final_prompt_generated",
                                    data |-> [final_prompt |-> final_prompt]])],
         calls |-> <<[call |-> "synthesis", context |-> s.stages_data,
                      ok |-> outcome.ok]>>,
         error |-> FALSE]

\* generate_final_optimized_prompt
generate_final_optimized_prompt(s, cl, outcome) ==
    IF cl
    THEN LET final_prompt == generate_final_prompt(outcome)
         IN  [session |-> [s EXCEPT !.final_prompt = Some(final_prompt),
                                    !.iteration_history = Append(@,
                                        [action |-> "final_prompt_generated",
                                         data |-> [final_prompt |-> final_prompt]])],
              calls |-> <<[call |-> "synthesis", context |-> s.stages_data,
                           ok |-> outcome.ok]>>,
              error |-> FALSE]
    ELSE [session |-> s, calls |-> <<>>, error |-> TRUE]

\* advance_to_next_stage that steps past the last stage after the synthesis
advance_past_last_stage(s, cl, outcome) ==
    LET current_index == StageIndex(s.current_stage)
    IN  IF current_index < Len(Stages) - 1
        THEN [session |-> [s EXCEPT !.current_stage = StageAt(current_index + 1)],
              calls |-> <<>>, error |-> FALSE]
        ELSE LET g == generate_final_optimized_prompt(s, cl, outcome)
             IN  [g EXCEPT !.session.current_stage = "complete"]

\* advance_to_next_stage that notes the move in the history
advance_to_next_stage_with_entry(s, cl, outcome) ==
    LET current_index == StageIndex(s.current_stage)
    IN  IF current_index < Len(Stages) - 1
        THEN [session |-> [s EXCEPT !.current_stage = StageAt(current_index + 1),
                                    !.iteration_history = Append(@,
                                        [action |-> "stage_advanced",
                                         stage |-> StageAt(current_index + 1)])],
              calls |-> <<>>, error |-> FALSE]
        ELSE generate_final_optimized_prompt(s, cl, outcome)

\* advance_to_next_stage
advance_to_next_stage(s, cl, outcome) ==
    LET current_index == StageIndex(s.current_stage)
    IN  IF current_index < Len(Stages) - 1
        THEN [session |-> [s EXCEPT !.current_stage = StageAt(current_index + 1)],
              calls |-> <<>>, error |-> FALSE]
        ELSE generate_final_optimized_prompt(s, cl, outcome)

\* a "Previous" button that goes back to the first stage
previous_stage_to_first(s) == [s EXCEPT !.current_stage = StageAt(0)]

\* the "Previous" button of render_current_stage
previous_stage(s) ==
    [s EXCEPT !.current_stage = StageAt(StageIndex(s.current_stage) - 1)]

\* a "Previous" button that is never disabled
previous_never_disabled(s) == FALSE

\* the "Previous" button is disabled at the first stage
previous_disabled(s) == StageIndex(s.current_stage) = 0

\* a "Next" button that tests the text without strip()
next_stage_unstripped(s, user_input, use_ai, cl, sugg, synth) ==
    IF user_input # <<>>
    THEN LET p == process_stage_input(s, s.current_stage, user_input, use_ai, cl, sugg)
             a == advance_to_next_stage(p.session, cl, synth)
         IN  [session |-> a.session, calls |-> p.calls \o a.calls, error |-> a.error]
    ELSE [session |-> s, calls |-> <<>>, error |-> FALSE]

\* the body of the "Next" button of render_current_stage
next_stage(s, user_input, use_ai, cl, sugg, synth) ==
    IF strip(user_input) # <<>>
    THEN LET p == process_stage_input(s, s.current_stage, user_input, use_ai, cl, sugg)
             a == advance_to_next_stage(p.session, cl, synth)
         IN  [session |-> a.session, calls |-> p.calls \o a.calls, error |-> a.error]
    ELSE [session |-> s, calls |-> <<>>, error |-> FALSE]

\* a reset that also clears final_prompt
reset_session_clears_final_prompt(s) ==
    [s EXCEPT !.active = FALSE,
              !.stages_data = EmptyDict,
              !.iteration_history = <<>>,
              !.final_prompt = None]

\* the confirmed branch of "Reset Session" in render_session_controls
reset_session(s) ==
    [s EXCEPT !.active = FALSE,
              !.stages_data = EmptyDict,
              !.iteration_history = <<>>]

\* "Start New Enhancement" in render_final_results
start_new_enhancement(s) ==
    [s EXCEPT !.active = FALSE, !.final_prompt = None]

\* export_session_data that adds an entry for the export to the exported history
export_session_data_stamps_history(s, t) ==
    [metadata |->
        [export_timestamp |-> t,
         session_duration_minutes |->
            IF s.start_time # None THEN t - s.start_time[1] ELSE 0,
         total_iterations |-> Len(s.iteration_history),
         stages_completed |->
            Cardinality({k \in DOMAIN s.stages_data : k # "initial_idea"})],
     initial_idea |->
        IF "initial_idea" \in DOMAIN s.stages_data
        THEN s.stages_data["initial_idea"] ELSE <<>>,
     final_prompt |-> s.final_prompt,
     refinement_stages |->
        [k \in {k \in DOMAIN s.stages_data : k # "initial_idea"} |-> s.stages_data[k]],
     iteration_history |->
        Append(s.iteration_history, [action |-> "exported", data |-> [at |-> t]])]

\* export_session_data at clock reading t (durations in clock units); the session
\* always has the key final_prompt, so session.get("final_prompt", "") is its
\* value, None included
export_session_data(s, t) ==
    [metadata |->
        [export_timestamp |-> t,
         session_duration_minutes |->
            IF s.start_time # None THEN t - s.start_time[1] ELSE 0,
         total_iterations |-> Len(s.iteration_history),
         stages_completed |->
            Cardinality({k \in DOMAIN s.stages_data : k # "initial_idea"})],
     initial_idea |->
        IF "initial_idea" \in DOMAIN s.stages_data
        THEN s.stages_data["initial_idea"] ELSE <<>>,
     final_prompt |-> s.final_prompt,
     refinement_stages |->
        [k \in {k \in DOMAIN s.stages_data : k # "initial_idea"} |-> s.stages_data[k]],
     iteration_history |-> s.iteration_history]

\* render_enhancement_interface shows the results view for an active session
\* whose final_prompt is truthy
IsComplete(s) == s.active /\ Truthy(s.final_prompt)

\* ... and the stage view for any other active session
IsInProgress(s) == s.active /\ ~Truthy(s.final_prompt)

\* the current stage has an answer in stages_data
Answered(s) == s.current_stage \in DOMAIN s.stages_data

\* the revised text is entered only at a stage that has an answer
Offered(s, in) == in.text = RevisedText => Answered(s)

\* number of stage_completed entries for a stage that an earlier entry completed
Resubmits(h) ==
    Cardinality({i \in 1..Len(h) : /\ h[i].action = "stage_completed"
                                   /\ \E j \in 1..(i-1) : /\ h[j].action = "stage_completed"
                                                          /\ h[j].stage = h[i].stage})

\* number of ai_suggestion entries
Suggestions(h) == Cardinality({i \in 1..Len(h) : h[i].action = "ai_suggestion"})

\* the history bounds of the model
WithinBounds(s) ==
    /\ Len(s.iteration_history) <= MaxHist
    /\ Resubmits(s.iteration_history) + Suggestions(s.iteration_history) <= MaxExtra

Status(s) ==
    IF ~s.active THEN "idle" ELSE IF IsComplete(s) THEN "complete" ELSE "in_progress"

----------------------------------------------------------------------------
(* GlobalCounter: the usage ledger kept in memory and in global_counters.json. *)
(* The fields first_used and last_updated (clock readings) are not modelled.   *)

\* the durations a video is generated with
Durations == {5, 6, 7, 8}

\* the durations of the videos requested
VideoDurations == {5, 8}

\* f"videos_{duration}s"
duration_key(duration) ==
    CASE duration = 5 -> "videos_5s"
      [] duration = 6 -> "videos_6s"
      [] duration = 7 -> "videos_7s"
      [] duration = 8 -> "videos_8s"

\* dict.get(key, default)
Get(d, key, default) == IF key \in DOMAIN d THEN d[key] ELSE default

RECURSIVE SumSeq(_)
SumSeq(q) == IF q = <<>> THEN 0 ELSE Head(q) + SumSeq(Tail(q))

\* _get_default_counters; video_durations holds the duration_seconds of each entry
get_default_counters ==
    [videos_generated |-> 0,
     images_generated |-> 0,
     chat_messages |-> 0,
     enhanced_prompts |-> 0,
     video_durations |-> <<>>,
     videos_5s |-> 0,
     videos_8s |-> 0,
     videos_6s |-> 0,
     videos_7s |-> 0,
     total_video_duration_seconds |-> 0]

CounterKeys == DOMAIN get_default_counters

\* the file: absent, text that is not JSON, bytes that are not UTF-8 text,
\* or a JSON object
NoFile == [kind |-> "missing", data |-> EmptyDict]
GarbledFile == [kind |-> "garbled", data |-> EmptyDict]
UndecodableFile == [kind |-> "undecodable", data |-> EmptyDict]
File(data) == [kind |-> "record", data |-> data]

\* a result of a call: the counters and the file it leaves, the value it
\* returns, or raised when an exception leaves the call
Returned(c, d, v) == [counters |-> c, disk |-> d, ret |-> v, raised |-> FALSE]
Raised(c, d) == [counters |-> c, disk |-> d, ret |-> 0, raised |-> TRUE]

\* _load_counters: json.load raises JSONDecodeError on text that is not JSON
\* (caught) and UnicodeDecodeError on bytes that are not text (not caught);
\* of a loaded object only four keys are filled in
load_counters(file) ==
    CASE file.kind = "missing" -> Returned(get_default_counters, file, 0)
      [] file.kind = "garbled" -> Returned(get_default_counters, file, 0)
      [] file.kind = "undecodable" -> Raised(EmptyDict, file)
      [] file.kind = "record" ->
            LET filled == {"enhanced_prompts", "videos_6s", "videos_7s",
                           "total_video_duration_seconds"}
            IN  Returned([k \in filled \cup DOMAIN file.data |-> Get(file.data, k, 0)],
                         file, 0)

\* _save_counters: the dump of the counters, or nothing when open() raises IOError
save_counters(c, d, write_ok) == IF write_ok THEN File(c) ELSE d

\* increment_video_count: a missing key raises KeyError where it is read
increment_video_count(c, d, duration, write_ok) ==
    IF "videos_generated" \notin DOMAIN c THEN Raised(c, d)
    ELSE LET c1 == [c EXCEPT !["videos_generated"] = @ + 1]
         IN  IF "video_durations" \notin DOMAIN c1 THEN Raised(c1, d)
             ELSE LET c2 == [c1 EXCEPT !["video_durations"] = Append(@, duration)]
                      c3 == DictSet(c2, "total_video_duration_seconds",
                                    Get(c2, "total_video_duration_seconds", 0) + duration)
                      c4 == DictSet(c3, duration_key(duration),
                                    Get(c3, duration_key(duration), 0) + 1)
                  IN  Returned(c4, save_counters(c4, d, write_ok), c4["videos_generated"])

\* increment_image_count
increment_image_count(c, d, write_ok) ==
    IF "images_generated" \notin DOMAIN c THEN Raised(c, d)
    ELSE LET c1 == [c EXCEPT !["images_generated"] = @ + 1]
         IN  Returned(c1, save_counters(c1, d, write_ok), c1["images_generated"])

\* increment_chat_count that lets the IOError of a failed write escape
increment_chat_count_fatal_write(c, d, write_ok) ==
    IF "chat_messages" \notin DOMAIN c THEN Raised(c, d)
    ELSE LET c1 == [c EXCEPT !["chat_messages"] = @ + 1]
         IN  IF write_ok THEN Returned(c1, save_counters(c1, d, write_ok), c1["chat_messages"])
             ELSE Raised(c1, d)

\* increment_chat_count
increment_chat_count(c, d, write_ok) ==
    IF "chat_messages" \notin DOMAIN c THEN Raised(c, d)
    ELSE LET c1 == [c EXCEPT !["chat_messages"] = @ + 1]
         IN  Returned(c1, save_counters(c1, d, write_ok), c1["chat_messages"])

\* increment_enhanced_prompt_count, the part on the persistent counters
increment_enhanced_prompt_count(c, d, write_ok) ==
    LET c1 == DictSet(c, "enhanced_prompts", Get(c, "enhanced_prompts", 0) + 1)
    IN  Returned(c1, save_counters(c1, d, write_ok), c1["enhanced_prompts"])

\* get_total_video_duration that trusts the stored total
get_total_video_duration_stored(c, d, write_ok) ==
    Returned(c, d, Get(c, "total_video_duration_seconds", 0))

\* get_total_video_duration: a stored total that differs from the sum of the
\* durations is replaced by the sum and saved
get_total_video_duration(c, d, write_ok) ==
    LET stored_total == Get(c, "total_video_duration_seconds", 0)
        calculated_total == SumSeq(Get(c, "video_durations", <<>>))
    IN  IF stored_total # calculated_total
        THEN LET c1 == DictSet(c, "total_video_duration_seconds", calculated_total)
             IN  Returned(c1, save_counters(c1, d, write_ok), calculated_total)
        ELSE Returned(c, d, stored_total)

\* a quotient a / b of two integers
Ratio(a, b) == [num |-> a, den |-> b]
RatioEq(x, y) == x.num * y.den = y.num * x.den

\* get_average_video_duration, given the total that get_total_video_duration returns
get_average_video_duration(c, total_duration) ==
    LET durations == Get(c, "video_durations", <<>>)
    IN  IF durations = <<>> THEN Ratio(0, 1) ELSE Ratio(total_duration, Len(durations))

\* _get_duration_breakdown
get_duration_breakdown(c) ==
    LET durations == Get(c, "video_durations", <<>>)
    IN  [x \in {durations[i] : i \in 1..Len(durations)} |->
            Cardinality({i \in 1..Len(durations) : durations[i] = x})]

\* get_statistics that takes the average over the number of videos counted
get_statistics_average_by_count(c, d, write_ok) ==
    LET t == get_total_video_duration(c, d, write_ok)
        c1 == t.counters
    IN  Returned(c1, t.disk,
            [total_videos |-> Get(c, "videos_generated", 0),
             total_images |-> Get(c, "images_generated", 0),
             total_chats |-> Get(c, "chat_messages", 0),
             total_enhanced_prompts |-> Get(c, "enhanced_prompts", 0),
             total_video_duration_seconds |-> t.ret,
             videos_5s |-> Get(c1, "videos_5s", 0),
             videos_8s |-> Get(c1, "videos_8s", 0),
             videos_6s |-> Get(c1, "videos_6s", 0),
             videos_7s |-> Get(c1, "videos_7s", 0),
             average_video_duration_seconds |->
                 Ratio(t.ret, Get(c, "videos_generated", 0) + 1),
             video_count_by_duration |-> get_duration_breakdown(c1)])

\* get_statistics
get_statistics(c, d, write_ok) ==
    LET t == get_total_video_duration(c, d, write_ok)
        c1 == t.counters
    IN  Returned(c1, t.disk,
            [total_videos |-> Get(c, "videos_generated", 0),
             total_images |-> Get(c, "images_generated", 0),
             total_chats |-> Get(c, "chat_messages", 0),
             total_enhanced_prompts |-> Get(c, "enhanced_prompts", 0),
             total_video_duration_seconds |-> t.ret,
             videos_5s |-> Get(c1, "videos_5s", 0),
             videos_8s |-> Get(c1, "videos_8s", 0),
             videos_6s |-> Get(c1, "videos_6s", 0),
             videos_7s |-> Get(c1, "videos_7s", 0),
             average_video_duration_seconds |->
                 get_average_video_duration(c1,
                     get_total_video_duration(c1, t.disk, write_ok).ret),
             video_count_by_duration |-> get_duration_breakdown(c1)])

----------------------------------------------------------------------------
(* The gateway operations of ChatService, ImageService and VideoService.    *)
(* A text they return is a sequence of tokens; an error text starts with    *)
(* the token "Error".                                                       *)

\* str.startswith("Error"), on the first token of a text
startswith_Error(t) ==
    /\ t # <<>>
    /\ Head(t) \in {"Error", "Error getting suggestion: ", "Error generating final prompt: "}

\* what a call leaves: a value returned, or an exception that leaves the function
Result(v) == [ret |-> v, raised |-> FALSE]
Escapes(m) == [ret |-> m, raised |-> TRUE]

\* tracer.trace_api_call: logs the call; returns what the function returns and
\* raises what it raises
trace_api_call(r) == r

\* the message of the AttributeError of client.chat or client.images on None
NoClient == <<"'NoneType' object has no attribute">>

\* the stream object that client.chat.completions.create(stream=True) returns
Stream == <<"<stream>">>

\* get_chatgpt_response without its try
get_chatgpt_response_unguarded(cl, outcome) ==
    trace_api_call(
        IF ~cl THEN Escapes(NoClient)
        ELSE IF outcome.ok THEN Result(Stream)
        ELSE Escapes(outcome.text))

\* get_chatgpt_response
get_chatgpt_response(cl, outcome) ==
    trace_api_call(
        IF ~cl THEN Result(<<"Error", ": ">> \o NoClient)
        ELSE IF outcome.ok THEN Result(Stream)
        ELSE Result(<<"Error", ": ">> \o outcome.text))

\* generate_image: the url, counted after client.images.generate returned
generate_image(cl, outcome, c, d) ==
    trace_api_call(
        IF ~cl
        THEN [ret |-> <<"Error", ": ">> \o NoClient, raised |-> FALSE,
              counters |-> c, disk |-> d]
        ELSE IF ~outcome.ok
        THEN [ret |-> <<"Error", ": ">> \o outcome.text, raised |-> FALSE,
              counters |-> c, disk |-> d]
        ELSE LET r == increment_image_count(c, d, TRUE)
             IN  IF r.raised
                 THEN [ret |-> <<"Error", ": ", "'images_generated'">>, raised |-> FALSE,
                       counters |-> r.counters, disk |-> r.disk]
                 ELSE [ret |-> outcome.text, raised |-> FALSE,
                       counters |-> r.counters, disk |-> r.disk])

\* generate_video: the ceiling on the polls of the operation
max_polls == 60

VideoTimeout == <<"Error", ": Video generation timed out after 20 minutes">>
VideoFailed(e) == <<"Error", ": Video generation failed - ">> \o e
VideoPollFailed(e) == <<"Error", ": Failed to check generation status - ">> \o e
VideoNotComplete == <<"Error", ": Video generation did not complete">>
VideoNoResponse == <<"Error", ": Video generation completed but no response received">>
VideoNoVideos == <<"Error", ": No videos were generated in the response">>
VideoNoneGenerated == <<"Error", ": No videos were generated">>
VideoNoneSaved == <<"Error", ": Failed to save any generated videos">>

\* f"video_{int(time.time())}_{n}.mp4"
video_filename(n) == <<"video_", <<"0", "1", "2">>[n + 1], ".mp4">>

\* the loop over generated_videos from index n on (lines 111-158): the first
\* video that is downloaded, saved and counted ends it; a video without a
\* file or an exception at one video goes on to the next
RECURSIVE save_videos(_, _, _, _, _)
save_videos(videos, n, duration, c, d) ==
    IF n >= Len(videos)
    THEN [ret |-> VideoNoneSaved, counters |-> c, disk |-> d]
    ELSE IF videos[n + 1] = "saved"
    THEN LET r == increment_video_count(c, d, duration, TRUE)
         IN  IF r.raised THEN save_videos(videos, n + 1, duration, r.counters, r.disk)
             ELSE [ret |-> video_filename(n), counters |-> r.counters, disk |-> r.disk]
    ELSE save_videos(videos, n + 1, duration, c, d)

\* the while loop (lines 48-73) from poll_count polls on, the operation not done:
\* it returns from inside, or ends with the operation done or the ceiling reached
RECURSIVE poll_loop(_, _)
poll_loop(job, poll_count) ==
    IF poll_count < max_polls
    THEN IF job.at = poll_count + 1 /\ job.finish = "raise"
         THEN [returned |-> TRUE, ret |-> VideoPollFailed(job.text), done |-> FALSE,
               poll_count |-> poll_count]
         ELSE IF job.at = poll_count + 1 /\ job.finish = "failed"
         THEN [returned |-> TRUE, ret |-> VideoFailed(job.text), done |-> TRUE,
               poll_count |-> poll_count + 1]
         ELSE IF job.at = poll_count + 1 /\ job.finish = "done"
         THEN [returned |-> FALSE, ret |-> <<>>, done |-> TRUE,
               poll_count |-> poll_count + 1]
         ELSE poll_loop(job, poll_count + 1)
    ELSE [returned |-> FALSE, ret |-> <<>>, done |-> FALSE, poll_count |-> poll_count]

\* what follows the loop without the test of the ceiling
after_polling_no_ceiling(poll_count, done, response, duration, c, d) ==
    IF ~done THEN [ret |-> VideoNotComplete, counters |-> c, disk |-> d]
    ELSE IF response.kind = "no_response"
    THEN [ret |-> VideoNoResponse, counters |-> c, disk |-> d]
    ELSE IF response.kind = "no_videos"
    THEN [ret |-> VideoNoVideos, counters |-> c, disk |-> d]
    ELSE IF Len(response.videos) = 0
    THEN [ret |-> VideoNoneGenerated, counters |-> c, disk |-> d]
    ELSE save_videos(response.videos, 0, duration, c, d)

\* what follows the loop (lines 75-158)
after_polling(poll_count, done, response, duration, c, d) ==
    IF poll_count >= max_polls THEN [ret |-> VideoTimeout, counters |-> c, disk |-> d]
    ELSE IF ~done THEN [ret |-> VideoNotComplete, counters |-> c, disk |-> d]
    ELSE IF response.kind = "no_response"
    THEN [ret |-> VideoNoResponse, counters |-> c, disk |-> d]
    ELSE IF response.kind = "no_videos"
    THEN [ret |-> VideoNoVideos, counters |-> c, disk |-> d]
    ELSE IF Len(response.videos) = 0
    THEN [ret |-> VideoNoneGenerated, counters |-> c, disk |-> d]
    ELSE save_videos(response.videos, 0, duration, c, d)

\* generate_video for a job of the service: what it returns, the polls it made
\* and the ledger it leaves
generate_video(job, duration, c, d) ==
    trace_api_call(
        IF job.create = "raise"
        THEN [ret |-> <<"Error", ": ">> \o job.text, raised |-> FALSE, polls |-> 0,
              counters |-> c, disk |-> d]
        ELSE LET l == IF job.create = "done"
                      THEN [returned |-> FALSE, ret |-> <<>>, done |-> TRUE, poll_count |-> 0]
                      ELSE poll_loop(job, 0)
                 a == after_polling(l.poll_count, l.done, job.response, duration, c, d)
             IN  IF l.returned
                 THEN [ret |-> l.ret, raised |-> FALSE, polls |-> l.poll_count,
                       counters |-> c, disk |-> d]
                 ELSE [ret |-> a.ret, raised |-> FALSE, polls |-> l.poll_count,
                       counters |-> a.counters, disk |-> a.disk])

\* an entry of st.session_state.messages; a key the program leaves out is None
\* (0 for a number), the timestamp is not modelled
Message(type, role, prompt, error, url, number, duration, data) ==
    [type |-> type, role |-> role, prompt |-> prompt, error |-> error, url |-> url,
     number |-> number, duration |-> duration, enhancement_data |-> data]

ChatMessage(role, content) ==
    Message("chat", role, content, None, None, 0, 0, None)

ImageMessage(prompt, error, url, number) ==
    Message("image", "", prompt, error, url, number, 0, None)

VideoMessage(prompt, duration, error, url, number) ==
    Message("video", "", prompt, error, url, number, duration, None)

\* the message of render_final_results; enhancement_data is the session's
\* stages_data, which no handler writes while the session is complete
EnhancedPromptMessage(s) ==
    Message("enhanced_prompt", "", s.final_prompt[1], None, None, 0, 0,
            Some(s.stages_data))

\* the texts typed into the chat input and the image and video prompts
ChatPrompt == <<"q">>
ImagePrompt == <<"m">>
VideoPrompt == <<"v">>

NoGoogleKey == <<"Google Cloud API key is required for video generation">>

\* handle_video_generation, lines 343-347: the default of the video prompt in
\* this run
default_of(pending) == IF pending # None THEN pending[1] ELSE <<>>

\* handle_video_generation that calls the service without looking for the key
handle_video_generation_without_key_check(key, g, video_prompt, duration, msgs, c, d) ==
    [messages |-> Append(msgs, VideoMessage(video_prompt, duration, Some(g.ret), None, 0)),
     counters |-> g.counters, disk |-> g.disk, ret |-> g.ret, called |-> TRUE]

\* handle_video_generation, "Generate Video" with a prompt entered (lines
\* 373-445): g is what generate_video does once it is called
handle_video_generation(key, g, video_prompt, duration, msgs, c, d) ==
    IF ~key
    THEN [messages |-> msgs, counters |-> c, disk |-> d, ret |-> NoGoogleKey,
          called |-> FALSE]
    ELSE IF startswith_Error(g.ret)
    THEN [messages |-> Append(msgs, VideoMessage(video_prompt, duration,
                                                 Some(g.ret), None, 0)),
          counters |-> g.counters, disk |-> g.disk, ret |-> g.ret, called |-> TRUE]
    ELSE LET current_global_count == Get(g.counters, "videos_generated", 0)
             video_stats == get_statistics(g.counters, g.disk, TRUE)
         IN  [messages |-> Append(msgs, VideoMessage(video_prompt, duration, None,
                                                     Some(g.ret), current_global_count)),
              counters |-> video_stats.counters, disk |-> video_stats.disk,
              ret |-> g.ret, called |-> TRUE]

\* an exception of a call made without a try leaves the caller as well
propagate(r, v) == IF r.raised THEN Escapes(r.ret) ELSE Result(v)

\* operation.response is None
NoResponse == [kind |-> "no_response", videos |-> <<>>]

\* a job of the video service: generate_videos raises, or returns an operation
\* that is done or running; a running one is seen done, failed or raising at
\* poll number at, or never ends
Job(create, finish, at, response) ==
    [create |-> create, finish |-> finish, at |-> at, text |-> <<"quota">>,
     response |-> response]

NoJob == Job("none", "never", 0, NoResponse)

\* a request and what it left
Gw(name, ret, raised, failed, success) ==
    [name |-> name, ret |-> ret, raised |-> raised, failed |-> failed,
     success |-> success, polls |-> 0, count |-> 0, job |-> NoJob]

NoRequest == Gw("none", <<>>, FALSE, FALSE, FALSE)

----------------------------------------------------------------------------
(* The last interaction *)

\* name, text entered, checkbox, gateway calls made, and the stage and status
\* of the session the interaction found
OpErr(name, text, use_ai, calls, error) ==
    [name |-> name, text |-> text, use_ai |-> use_ai, calls |-> calls,
     error |-> error,
     stage |-> enhancement_session.current_stage,
     from |-> Status(enhancement_session)]

Op(name, text, use_ai, calls) == OpErr(name, text, use_ai, calls, FALSE)

NoOp == [name |-> "init", text |-> <<>>, use_ai |-> FALSE, calls |-> <<>>,
         error |-> FALSE, stage |-> "concept", from |-> "idle"]

Snapshot(s) == [current_stage |-> s.current_stage, stages_data |-> s.stages_data]

\* mark after an interaction: set by a retreat, kept by the advance that follows it;
\* a "Save Progress" that follows a "Save Progress" keeps the earlier export
Marked(name) ==
    mark' = IF name = "previous" THEN Some(Snapshot(enhancement_session))
            ELSE IF name = "advance" /\ op.name = "previous" THEN mark
            ELSE IF name = "save" /\ op.name = "save" THEN saved_enhancement
            ELSE None

\* st.session_state.saved_enhancement after an interaction:
\* export_session_data puts the session's iteration_history list itself into
\* the export, so what is appended to that list shows in the saved export
\* until the session gets a new list (start_enhancement_flow, the reset)
SavedAfter(replaced) ==
    /\ history_shared' = (history_shared /\ ~replaced)
    /\ saved_enhancement' =
           IF history_shared /\ ~replaced
           THEN Some([saved_enhancement[1] EXCEPT
                        !.iteration_history = enhancement_session'.iteration_history])
           ELSE saved_enhancement

\* the call that nothing has made yet
NoCall == [name |-> "none", arg |-> 0, ret |-> 0, raised |-> FALSE, write_ok |-> TRUE]

\* the script threads that share global_counter
Sessions == {1, 2}

----------------------------------------------------------------------------
(* The script of main.py: one handler per interaction *)

Init ==
    /\ enhancement_session = DefaultSession
    /\ client = FALSE
    /\ api_key = FALSE
    /\ mode = "chat"
    /\ confirm_reset = FALSE
    /\ enhanced_prompts = 0
    /\ now = 0
    /\ op = NoOp
    /\ mark = None
    /\ saved_enhancement = None
    /\ disk = NoFile
    /\ counters = load_counters(NoFile).counters
    /\ loaded_from = Some(NoFile)
    /\ ledger_log = <<>>
    /\ ledger_ret = NoCall
    /\ pc = [s \in Sessions |-> "idle"]
    /\ tmp = [s \in Sessions |-> 0]
    /\ gw = NoRequest
    /\ requests = 0
    /\ history_shared = FALSE
    /\ messages = <<>>
    /\ enhanced_prompt_to_use = None
    /\ default_prompt = <<>>
    /\ thread_messages = [s \in Sessions |-> <<>>]
    /\ google_api_key = FALSE

\* what no interaction with the keys touches
KeysFrame ==
    UNCHANGED <<saved_enhancement, history_shared, loaded_from, ledger_log, ledger_ret,
                pc, tmp, gw, requests, enhanced_prompt_to_use, default_prompt,
                thread_messages>>

\* render_auth_ui, "Validate API Keys" with a key the provider accepts, and
\* with or without a Google key entered
ValidateApiKeys(google_api_key_input) ==
    /\ KeysFrame
    /\ ~api_key
    /\ api_key' = TRUE
    /\ client' = TRUE
    /\ google_api_key' = IF google_api_key_input THEN TRUE ELSE google_api_key
    /\ op' = Op("other", <<>>, FALSE, <<>>)
    /\ Marked("other")
    /\ UNCHANGED <<enhancement_session, mode, confirm_reset, enhanced_prompts, now, counters, disk,
                   messages>>

\* render_sidebar, "Change API Keys"
ChangeApiKeys ==
    /\ KeysFrame
    /\ api_key
    /\ enhanced_prompt_to_use = None
    /\ api_key' = FALSE
    /\ client' = FALSE
    /\ google_api_key' = FALSE
    /\ messages' = <<>>
    /\ op' = Op("other", <<>>, FALSE, <<>>)
    /\ Marked("other")
    /\ UNCHANGED <<enhancement_session, mode, confirm_reset, enhanced_prompts, now, counters, disk>>

\* a run of handle_video_generation that leaves the pending prompt in place
RenderVideoPromptKeepsPending ==
    /\ default_prompt' = default_of(enhanced_prompt_to_use)
    /\ UNCHANGED enhanced_prompt_to_use

\* handle_video_generation, lines 343-347, run whenever the video view is
\* rendered: a pending enhanced prompt becomes the default of the video prompt
\* and is deleted
RenderVideoPrompt ==
    /\ default_prompt' = default_of(enhanced_prompt_to_use)
    /\ enhanced_prompt_to_use' = None

\* render_mode_selector
SelectMode(m) ==
    /\ UNCHANGED <<saved_enhancement, history_shared, loaded_from, ledger_log,
                   ledger_ret, pc, tmp, gw, requests, messages, thread_messages,
                   google_api_key>>
    /\ api_key
    /\ enhanced_prompt_to_use = None
    /\ m # mode
    /\ mode' = m
    /\ IF m = "video" THEN RenderVideoPrompt
       ELSE UNCHANGED <<enhanced_prompt_to_use, default_prompt>>
    /\ op' = Op("other", <<>>, FALSE, <<>>)
    /\ Marked("other")
    /\ UNCHANGED <<enhancement_session, client, api_key, confirm_reset,
                   enhanced_prompts, now, counters, disk>>

\* the state change of start_enhancement_flow, which ends the script run with st.rerun()
StartFlow(initial_idea) ==
    /\ enhanced_prompts < MaxStarts
    /\ now' = now + 1
    /\ enhanced_prompts' = enhanced_prompts + 1
    /\ LET r == increment_enhanced_prompt_count(counters, disk, TRUE)
       IN  counters' = r.counters /\ disk' = r.disk
    /\ enhancement_session' =
           start_enhancement_flow(enhancement_session, initial_idea, now + 1)
    /\ op' = Op("start", initial_idea, FALSE, <<>>)
    /\ Marked("start")
    /\ SavedAfter(TRUE)

\* a click that the disabled button or the guard of the handler turns into nothing
Rejected(name, text, use_ai) ==
    /\ op' = Op(name, text, use_ai, <<>>)
    /\ Marked(name)
    /\ UNCHANGED <<enhancement_session, enhanced_prompts, now, counters, disk>>
    /\ SavedAfter(FALSE)

\* render_example_prompts, "Use as Template": shown whether or not a session is active
UseAsTemplate(key) ==
    /\ UNCHANGED sideVars
    /\ api_key /\ mode = "enhance"
    /\ StartFlow(ExamplePrompts[key])
    /\ UNCHANGED <<client, api_key, mode, confirm_reset>>

\* render_enhancement_interface, "Start Enhancement": shown when no session is active,
\* disabled while the idea is blank
StartEnhancement(initial_idea) ==
    /\ UNCHANGED sideVars
    /\ api_key /\ mode = "enhance"
    /\ ~enhancement_session.active
    /\ IF strip(initial_idea) # <<>>
       THEN StartFlow(initial_idea)
       ELSE Rejected("start_rejected", initial_idea, FALSE)
    /\ UNCHANGED <<client, api_key, mode, confirm_reset>>

\* handle_video_generation, "Optimize this prompt"
OptimizeThisPrompt(video_prompt) ==
    /\ UNCHANGED sideVars
    /\ api_key /\ mode = "video"
    /\ enhanced_prompt_to_use = None /\ default_prompt = <<>>
    /\ mode' = "enhance"
    /\ IF strip(video_prompt) # <<>>
       THEN StartFlow(video_prompt)
       ELSE Rejected("start_rejected", video_prompt, FALSE)
    /\ UNCHANGED <<client, api_key, confirm_reset>>

\* the last ai_suggestion entry of a history that has one
LastSuggestion(h) ==
    h[CHOOSE i \in 1..Len(h) :
          /\ h[i].action = "ai_suggestion"
          /\ \A j \in (i+1)..Len(h) : h[j].action # "ai_suggestion"]

\* render_current_stage, "Use AI suggestion instead": the button is drawn inside the
\* body of "Next" under a truthy suggestion, and that body ends the run with
\* st.rerun(); the run that a click on it starts finds "Next" not clicked, so the
\* assignment under the button is not reached and the run changes nothing
UseAiSuggestionInstead ==
    /\ UNCHANGED otherVars
    /\ api_key /\ mode = "enhance"
    /\ enhancement_session.active
    /\ op.name = "next"
    /\ \E k \in 1..Len(op.calls) : op.calls[k].call = "suggestion"
    /\ LET shown == LastSuggestion(enhancement_session.iteration_history)
       IN  /\ Len(shown.data.suggestion) > 0
           /\ op' = [Op("use_ai_suggestion", shown.data.suggestion, TRUE, <<>>)
                         EXCEPT !.stage = shown.stage]
    /\ Marked("use_ai_suggestion")
    /\ UNCHANGED <<enhancement_session, client, api_key, mode, confirm_reset,
                   enhanced_prompts, now, counters, disk>>

\* render_current_stage, "Previous"
Previous ==
    /\ UNCHANGED otherVars
    /\ api_key /\ mode = "enhance"
    /\ IsInProgress(enhancement_session)
    /\ ~previous_disabled(enhancement_session)
    /\ enhancement_session' = previous_stage(enhancement_session)
    /\ op' = Op("previous", <<>>, FALSE, <<>>)
    /\ Marked("previous")
    /\ UNCHANGED <<client, api_key, mode, confirm_reset, enhanced_prompts, now, counters, disk>>

\* render_current_stage, "Next" with the text and the checkbox the user has set;
\* with a blank text the button is disabled and the run changes nothing
NextStage(in, synth) ==
    /\ UNCHANGED sideVars
    /\ api_key /\ mode = "enhance"
    /\ IsInProgress(enhancement_session)
    /\ Offered(enhancement_session, in)
    /\ LET r == next_stage(enhancement_session, in.text, in.use_ai, client,
                           in.sugg, synth)
       IN  /\ WithinBounds(r.session)
           /\ enhancement_session' = r.session
           /\ op' = OpErr("next", in.text, in.use_ai, r.calls, r.error)
    /\ Marked("next")
    /\ UNCHANGED <<client, api_key, mode, confirm_reset, enhanced_prompts, now, counters, disk>>
    /\ SavedAfter(FALSE)

\* render_final_results, "Start New Enhancement"
StartNewEnhancement ==
    /\ UNCHANGED otherVars
    /\ api_key /\ mode = "enhance"
    /\ IsComplete(enhancement_session)
    /\ enhancement_session' = start_new_enhancement(enhancement_session)
    /\ op' = Op("start_new_enhancement", <<>>, FALSE, <<>>)
    /\ Marked("start_new_enhancement")
    /\ UNCHANGED <<client, api_key, mode, confirm_reset, enhanced_prompts, now, counters, disk>>

\* render_session_controls, "Reset Session": the first click asks, the second resets
ResetSession ==
    /\ UNCHANGED sideVars
    /\ api_key /\ mode = "enhance"
    /\ enhancement_session.active
    /\ IF ~confirm_reset
       THEN /\ confirm_reset' = TRUE
            /\ op' = Op("reset_asked", <<>>, FALSE, <<>>)
            /\ UNCHANGED enhancement_session
       ELSE /\ enhancement_session' = reset_session(enhancement_session)
            /\ confirm_reset' = FALSE
            /\ op' = Op("reset", <<>>, FALSE, <<>>)
    /\ Marked("reset")
    /\ UNCHANGED <<client, api_key, mode, enhanced_prompts, now, counters, disk>>
    /\ SavedAfter(confirm_reset)

Next ==
    \/ ValidateApiKeys(FALSE)
    \/ ChangeApiKeys
    \/ \E m \in {"video", "enhance"} : SelectMode(m)
    \/ \E key \in TemplateKeys : UseAsTemplate(key)
    \/ \E t \in IdeaTexts : StartEnhancement(t)
    \/ \E t \in IdeaTexts : OptimizeThisPrompt(t)
    \/ Previous
    \/ UseAiSuggestionInstead
    \/ \E in \in StageInputs, synth \in SynthesisOutcomes : NextStage(in, synth)
    \/ StartNewEnhancement
    \/ ResetSession

Spec == Init /\ [][Next]_vars

----------------------------------------------------------------------------
(* The enhancement view with its "Save Progress" control, under a clock    *)
(* that ticks between interactions                                         *)

\* the answers entered in this view
ExportInputs == {[text |-> <<"a">>, use_ai |-> FALSE, sugg |-> Ok(<<"s">>)]}

\* render_session_controls, "Save Progress"
SaveProgress ==
    /\ api_key /\ mode = "enhance"
    /\ enhancement_session.active
    /\ saved_enhancement' = Some(export_session_data(enhancement_session, now))
    /\ op' = Op("save", <<>>, FALSE, <<>>)
    /\ Marked("save")
    /\ UNCHANGED <<enhancement_session, client, api_key, mode, confirm_reset,
                   enhanced_prompts, now, counters, disk>>
    /\ history_shared' = TRUE
    /\ UNCHANGED sideVars

\* time passes
Tick ==
    /\ now < MaxClock
    /\ now' = now + 1
    /\ UNCHANGED <<enhancement_session, client, api_key, mode, confirm_reset,
                   enhanced_prompts, op, mark, counters, disk>>
    /\ UNCHANGED otherVars

NextExport ==
    \/ ValidateApiKeys(FALSE)
    \/ SelectMode("enhance")
    \/ \E t \in IdeaTexts : StartEnhancement(t)
    \/ \E in \in ExportInputs, synth \in SynthesisOutcomes : NextStage(in, synth)
    \/ StartNewEnhancement
    \/ ResetSession
    \/ SaveProgress
    \/ Tick

SpecExport == Init /\ [][NextExport]_vars

----------------------------------------------------------------------------
(* The operations of PromptEnhancementService called one at a time, under   *)
(* the conditions the stage view calls them (an active session without a    *)
(* final prompt, a non-blank text, an advance only from a stage that       *)
(* process_stage_input has answered),                                      *)
(* with st.session_state.client set or None                                 *)

\* st.session_state.client = result (auth_service) or = None (main, sidebar)
EngineSetClient(b) ==
    /\ UNCHANGED otherVars
    /\ client # b
    /\ client' = b
    /\ op' = Op("other", <<>>, FALSE, <<>>)
    /\ Marked("other")
    /\ UNCHANGED <<enhancement_session, api_key, mode, confirm_reset,
                   enhanced_prompts, now, counters, disk>>

\* start_enhancement_flow(initial_idea)
EngineStart(initial_idea) ==
    /\ UNCHANGED sideVars
    /\ strip(initial_idea) # <<>>
    /\ StartFlow(initial_idea)
    /\ UNCHANGED <<client, api_key, mode, confirm_reset>>

\* process_stage_input(current_stage, user_input, use_ai)
EngineSubmit(in) ==
    /\ UNCHANGED sideVars
    /\ IsInProgress(enhancement_session)
    /\ strip(in.text) # <<>>
    /\ LET r == process_stage_input(enhancement_session,
                                    enhancement_session.current_stage,
                                    in.text, in.use_ai, client, in.sugg)
       IN  /\ WithinBounds(r.session)
           /\ enhancement_session' = r.session
           /\ op' = Op("submit", in.text, in.use_ai, r.calls)
    /\ Marked("submit")
    /\ UNCHANGED <<client, api_key, mode, confirm_reset, enhanced_prompts, now, counters, disk>>
    /\ SavedAfter(FALSE)

\* advance_to_next_stage()
EngineAdvance(synth) ==
    /\ UNCHANGED sideVars
    /\ IsInProgress(enhancement_session)
    /\ Answered(enhancement_session)
    /\ LET r == advance_to_next_stage(enhancement_session, client, synth)
       IN  /\ WithinBounds(r.session)
           /\ enhancement_session' = r.session
           /\ op' = OpErr("advance", <<>>, FALSE, r.calls, r.error)
    /\ Marked("advance")
    /\ UNCHANGED <<client, api_key, mode, confirm_reset, enhanced_prompts, now, counters, disk>>
    /\ SavedAfter(FALSE)

\* the "Previous" button
EngineRetreat ==
    /\ UNCHANGED otherVars
    /\ IsInProgress(enhancement_session)
    /\ ~previous_disabled(enhancement_session)
    /\ enhancement_session' = previous_stage(enhancement_session)
    /\ op' = Op("previous", <<>>, FALSE, <<>>)
    /\ Marked("previous")
    /\ UNCHANGED <<client, api_key, mode, confirm_reset, enhanced_prompts, now, counters, disk>>

\* generate_final_optimized_prompt()
EngineSynthesize(synth) ==
    /\ UNCHANGED sideVars
    /\ IsInProgress(enhancement_session)
    /\ Answered(enhancement_session)
    /\ StageIndex(enhancement_session.current_stage) = Len(Stages) - 1
    /\ LET r == generate_final_optimized_prompt(enhancement_session, client, synth)
       IN  /\ WithinBounds(r.session)
           /\ enhancement_session' = r.session
           /\ op' = OpErr("synthesize", <<>>, FALSE, r.calls, r.error)
    /\ Marked("synthesize")
    /\ UNCHANGED <<client, api_key, mode, confirm_reset, enhanced_prompts, now, counters, disk>>
    /\ SavedAfter(FALSE)

\* the confirmed reset
EngineReset ==
    /\ UNCHANGED sideVars
    /\ enhancement_session.active
    /\ enhancement_session' = reset_session(enhancement_session)
    /\ op' = Op("reset", <<>>, FALSE, <<>>)
    /\ Marked("reset")
    /\ UNCHANGED <<client, api_key, mode, confirm_reset, enhanced_prompts, now, counters, disk>>
    /\ SavedAfter(TRUE)

NextEngine ==
    \/ \E b \in BOOLEAN : EngineSetClient(b)
    \/ \E t \in IdeaTexts : EngineStart(t)
    \/ \E in \in EngineInputs : EngineSubmit(in)
    \/ \E synth \in SynthesisOutcomes : EngineAdvance(synth)
    \/ EngineRetreat
    \/ \E synth \in SynthesisOutcomes : EngineSynthesize(synth)
    \/ EngineReset

SpecEngine == Init /\ [][NextEngine]_vars

----------------------------------------------------------------------------
(* GlobalCounter called from one script thread: the construction at import, *)
(* then increments and get_statistics                                       *)

\* global_counters.json as an earlier run, an older version of the program or
\* a damaged disk may have left it
DiskFiles ==
    {NoFile, GarbledFile, UndecodableFile,
     File(get_default_counters),
     File(EmptyDict),
     File([videos_generated |-> 1, images_generated |-> 0, chat_messages |-> 2,
           video_durations |-> <<8>>, videos_5s |-> 0, videos_8s |-> 1]),
     File([videos_generated |-> 0, images_generated |-> 0, chat_messages |-> 0])}

\* the state at the import of global_counter.py, before GlobalCounter() runs
InitLedger ==
    /\ enhancement_session = DefaultSession
    /\ client = FALSE
    /\ api_key = FALSE
    /\ mode = "chat"
    /\ confirm_reset = FALSE
    /\ enhanced_prompts = 0
    /\ now = 0
    /\ op = NoOp
    /\ mark = None
    /\ saved_enhancement = None
    /\ disk \in DiskFiles
    /\ counters = EmptyDict
    /\ loaded_from = None
    /\ ledger_log = <<>>
    /\ ledger_ret = NoCall
    /\ pc = [s \in Sessions |-> "idle"]
    /\ tmp = [s \in Sessions |-> 0]
    /\ gw = NoRequest
    /\ requests = 0
    /\ history_shared = FALSE
    /\ messages = <<>>
    /\ enhanced_prompt_to_use = None
    /\ default_prompt = <<>>
    /\ thread_messages = [s \in Sessions |-> <<>>]
    /\ google_api_key = FALSE

\* what a call on global_counter leaves
Call(name, arg, write_ok, r) ==
    /\ counters' = r.counters
    /\ disk' = r.disk
    /\ ledger_ret' = [name |-> name, arg |-> arg, ret |-> r.ret, raised |-> r.raised,
                      write_ok |-> write_ok]
    /\ UNCHANGED <<enhancement_session, client, api_key, mode, confirm_reset, now,
                   op, mark, saved_enhancement, pc, tmp, gw, requests,
                   history_shared, messages, enhanced_prompt_to_use, default_prompt,
                   thread_messages, google_api_key>>

\* global_counter = GlobalCounter()
Construct ==
    /\ loaded_from = None
    /\ loaded_from' = Some(disk)
    /\ Call("load", 0, TRUE, load_counters(disk))
    /\ UNCHANGED <<ledger_log, enhanced_prompts>>

\* the instance exists: the import did not raise
Constructed == loaded_from # None /\ ~(ledger_ret.name = "load" /\ ledger_ret.raised)

\* an increment: one more call in the log
Increment(name, arg) ==
    /\ Constructed
    /\ Len(ledger_log) < MaxIncrements
    /\ ledger_log' = Append(ledger_log, [name |-> name, arg |-> arg])
    /\ UNCHANGED loaded_from

IncrementChats(write_ok) ==
    /\ Increment("increment_chat_count", 0)
    /\ Call("increment_chat_count", 0, write_ok,
            increment_chat_count(counters, disk, write_ok))
    /\ UNCHANGED enhanced_prompts

IncrementImages(write_ok) ==
    /\ Increment("increment_image_count", 0)
    /\ Call("increment_image_count", 0, write_ok,
            increment_image_count(counters, disk, write_ok))
    /\ UNCHANGED enhanced_prompts

IncrementVideos(duration, write_ok) ==
    /\ Increment("increment_video_count", duration)
    /\ Call("increment_video_count", duration, write_ok,
            increment_video_count(counters, disk, duration, write_ok))
    /\ UNCHANGED enhanced_prompts

\* increment_enhanced_prompt_count also counts in st.session_state
IncrementEnhancedPrompts(write_ok) ==
    /\ Increment("increment_enhanced_prompt_count", 0)
    /\ enhanced_prompts' = enhanced_prompts + 1
    /\ Call("increment_enhanced_prompt_count", 0, write_ok,
            increment_enhanced_prompt_count(counters, disk, write_ok))

GetStatistics(write_ok) ==
    /\ Constructed
    /\ Call("get_statistics", 0, write_ok, get_statistics(counters, disk, write_ok))
    /\ UNCHANGED <<ledger_log, loaded_from, enhanced_prompts>>

\* get_formatted_total_duration: the read of the total on its own
GetTotalVideoDuration(write_ok) ==
    /\ Constructed
    /\ Call("get_total_video_duration", 0, write_ok,
            get_total_video_duration(counters, disk, write_ok))
    /\ UNCHANGED <<ledger_log, loaded_from, enhanced_prompts>>

NextLedger ==
    \/ Construct
    \/ \E w \in BOOLEAN : IncrementChats(w)
    \/ \E w \in BOOLEAN : IncrementImages(w)
    \/ \E d \in Durations, w \in BOOLEAN : IncrementVideos(d, w)
    \/ \E w \in BOOLEAN : IncrementEnhancedPrompts(w)
    \/ \E w \in BOOLEAN : GetStatistics(w)
    \/ \E w \in BOOLEAN : GetTotalVideoDuration(w)

SpecLedger == InitLedger /\ [][NextLedger]_vars

----------------------------------------------------------------------------
(* increment_chat_count called from two script threads that share           *)
(* global_counter: the steps of one call interleave with the other's        *)

\* what leaves the thread's variables and the session state alone
RaceFrame ==
    UNCHANGED <<enhancement_session, client, api_key, mode, confirm_reset,
                enhanced_prompts, now, op, mark, saved_enhancement, loaded_from,
                gw, requests, history_shared, messages, enhanced_prompt_to_use,
                default_prompt, thread_messages, google_api_key>>

Goto(s, label) == pc' = [pc EXCEPT ![s] = label]

\* the thread enters increment_chat_count
ChatCall(s) ==
    /\ pc[s] = "idle"
    /\ Len(ledger_log) < MaxIncrements
    /\ ledger_log' = Append(ledger_log, [name |-> "increment_chat_count", arg |-> s])
    /\ Goto(s, "read")
    /\ RaceFrame
    /\ UNCHANGED <<counters, disk, ledger_ret, tmp>>

\* self.counters["chat_messages"] += 1, the load of the item
ChatRead(s) ==
    /\ pc[s] = "read"
    /\ tmp' = [tmp EXCEPT ![s] = counters["chat_messages"]]
    /\ Goto(s, "write")
    /\ RaceFrame
    /\ UNCHANGED <<counters, disk, ledger_ret, ledger_log>>

\* ... and the store of the sum
ChatWrite(s) ==
    /\ pc[s] = "write"
    /\ counters' = [counters EXCEPT !["chat_messages"] = tmp[s] + 1]
    /\ Goto(s, "open")
    /\ RaceFrame
    /\ UNCHANGED <<disk, ledger_ret, ledger_log, tmp>>

\* _save_counters: open(self.counter_file, 'w') truncates the file
ChatOpen(s) ==
    /\ pc[s] = "open"
    /\ disk' = GarbledFile
    /\ Goto(s, "dump")
    /\ RaceFrame
    /\ UNCHANGED <<counters, ledger_ret, ledger_log, tmp>>

\* ... and json.dump writes the counters as they are now
ChatDump(s) ==
    /\ pc[s] = "dump"
    /\ disk' = File(counters)
    /\ Goto(s, "return")
    /\ RaceFrame
    /\ UNCHANGED <<counters, ledger_ret, ledger_log, tmp>>

\* return self.counters["chat_messages"]
ChatReturn(s) ==
    /\ pc[s] = "return"
    /\ ledger_ret' = [name |-> "increment_chat_count", arg |-> s,
                      ret |-> counters["chat_messages"], raised |-> FALSE,
                      write_ok |-> TRUE]
    /\ Goto(s, "idle")
    /\ RaceFrame
    /\ UNCHANGED <<counters, disk, ledger_log, tmp>>

NextRace ==
    \E s \in Sessions :
        \/ ChatCall(s)
        \/ ChatRead(s)
        \/ ChatWrite(s)
        \/ ChatOpen(s)
        \/ ChatDump(s)
        \/ ChatReturn(s)

SpecRace == Init /\ [][NextRace]_vars

----------------------------------------------------------------------------
(* Two sessions whose video requests run at the same time: the steps of     *)
(* increment_video_count, called by generate_video once the file is saved,  *)
(* and the message that handle_video_generation appends afterwards          *)
(* interleave with the other thread's                                       *)

\* both sessions are past the keys and in the video view
InitVideoRace ==
    /\ enhancement_session = DefaultSession
    /\ client = TRUE
    /\ api_key = TRUE
    /\ mode = "video"
    /\ confirm_reset = FALSE
    /\ enhanced_prompts = 0
    /\ now = 0
    /\ op = NoOp
    /\ mark = None
    /\ saved_enhancement = None
    /\ disk = NoFile
    /\ counters = load_counters(NoFile).counters
    /\ loaded_from = Some(NoFile)
    /\ ledger_log = <<>>
    /\ ledger_ret = NoCall
    /\ pc = [s \in Sessions |-> "idle"]
    /\ tmp = [s \in Sessions |-> 0]
    /\ gw = NoRequest
    /\ requests = 0
    /\ history_shared = FALSE
    /\ messages = <<>>
    /\ enhanced_prompt_to_use = None
    /\ default_prompt = <<>>
    /\ thread_messages = [s \in Sessions |-> <<>>]
    /\ google_api_key = TRUE

\* what the threads leave alone
VideoRaceFrame ==
    UNCHANGED <<enhancement_session, client, api_key, mode, confirm_reset,
                enhanced_prompts, now, op, mark, saved_enhancement, loaded_from,
                gw, requests, history_shared, messages, enhanced_prompt_to_use,
                default_prompt, google_api_key>>

\* the duration argument of the call the thread is in
DurationOf(s) ==
    ledger_log[CHOOSE i \in 1..Len(ledger_log) :
                   /\ ledger_log[i].by = s
                   /\ \A j \in (i+1)..Len(ledger_log) : ledger_log[j].by # s].arg

\* the file that generate_video saved
SavedVideo == <<"generated_video.mp4">>

\* generate_video has saved the file and enters increment_video_count(duration)
VideoCall(s, duration) ==
    /\ pc[s] = "idle"
    /\ Len(ledger_log) < MaxIncrements
    /\ ledger_log' = Append(ledger_log, [name |-> "increment_video_count",
                                         arg |-> duration, by |-> s])
    /\ Goto(s, "read")
    /\ VideoRaceFrame
    /\ UNCHANGED <<counters, disk, ledger_ret, tmp, thread_messages>>

\* self.counters["videos_generated"] += 1, the load of the item
VideoRead(s) ==
    /\ pc[s] = "read"
    /\ tmp' = [tmp EXCEPT ![s] = counters["videos_generated"]]
    /\ Goto(s, "write")
    /\ VideoRaceFrame
    /\ UNCHANGED <<counters, disk, ledger_ret, ledger_log, thread_messages>>

\* ... and the store of the sum
VideoWrite(s) ==
    /\ pc[s] = "write"
    /\ counters' = [counters EXCEPT !["videos_generated"] = tmp[s] + 1]
    /\ Goto(s, "durations")
    /\ VideoRaceFrame
    /\ UNCHANGED <<disk, ledger_ret, ledger_log, tmp, thread_messages>>

\* the rest of increment_video_count up to _save_counters: what the call does to
\* counters that already hold the incremented videos_generated
VideoDurationsAndSave(s) ==
    /\ pc[s] = "durations"
    /\ LET r == increment_video_count(
                    [counters EXCEPT !["videos_generated"] = @ - 1], disk,
                    DurationOf(s), TRUE)
       IN  counters' = r.counters /\ disk' = r.disk
    /\ Goto(s, "return")
    /\ VideoRaceFrame
    /\ UNCHANGED <<ledger_ret, ledger_log, tmp, thread_messages>>

\* return self.counters["videos_generated"]: global_video_count of generate_video
VideoReturn(s) ==
    /\ pc[s] = "return"
    /\ tmp' = [tmp EXCEPT ![s] = counters["videos_generated"]]
    /\ ledger_ret' = [name |-> "increment_video_count", arg |-> DurationOf(s),
                      ret |-> counters["videos_generated"], raised |-> FALSE,
                      write_ok |-> TRUE]
    /\ Goto(s, "message")
    /\ VideoRaceFrame
    /\ UNCHANGED <<counters, disk, ledger_log, thread_messages>>

\* handle_video_generation with the file name generate_video returned: the
\* message of the session with global_counter.get_video_count() as its number
VideoAppend(s) ==
    /\ pc[s] = "message"
    /\ LET r == handle_video_generation(
                    google_api_key,
                    [ret |-> SavedVideo, counters |-> counters, disk |-> disk],
                    VideoPrompt, DurationOf(s), thread_messages[s], counters, disk)
       IN  /\ thread_messages' = [thread_messages EXCEPT ![s] = r.messages]
           /\ counters' = r.counters
           /\ disk' = r.disk
    /\ Goto(s, "idle")
    /\ VideoRaceFrame
    /\ UNCHANGED <<ledger_ret, ledger_log, tmp>>

NextVideoRace ==
    \E s \in Sessions :
        \/ \E duration \in VideoDurations : VideoCall(s, duration)
        \/ VideoRead(s)
        \/ VideoWrite(s)
        \/ VideoDurationsAndSave(s)
        \/ VideoReturn(s)
        \/ VideoAppend(s)

SpecVideoRace == InitVideoRace /\ [][NextVideoRace]_vars

----------------------------------------------------------------------------
(* The handlers that reach the external services, one request at a time:    *)
(* chat, image and video generation, the start of an enhancement session,   *)
(* process_stage_input and generate_final_optimized_prompt                  *)

\* the modes of render_mode_selector
Modes == {"chat", "image", "video", "enhance"}

\* what client.chat.completions.create(stream=True) and the iteration over the
\* stream may do
ChatOutcomes ==
    {[ok |-> TRUE, text |-> <<"hi">>, streams |-> TRUE],
     [ok |-> TRUE, text |-> <<"hi">>, streams |-> FALSE],
     [ok |-> FALSE, text |-> <<"down">>, streams |-> FALSE]}

\* what client.images.generate may do
ImageOutcomes == {Ok(<<"https://image">>), Raise(<<"down">>)}

\* the polls at which an operation is seen to have ended
PollTimes == {1, max_polls - 1, max_polls}

\* operation.response: None, without generated_videos, or with a list of videos,
\* each without a file, failing at its download or at its save, or saved
VideoLists ==
    {<<>>, <<"saved">>, <<"no_file">>, <<"download_error", "saved">>,
     <<"save_error", "save_error">>, <<"saved", "saved">>}

Responses ==
    {NoResponse, [kind |-> "no_videos", videos |-> <<>>]}
        \cup {[kind |-> "videos", videos |-> v] : v \in VideoLists}

Jobs ==
    {Job("raise", "never", 0, NoResponse), Job("running", "never", 0, NoResponse)}
        \cup {Job("done", "never", 0, r) : r \in Responses}
        \cup {Job("running", "done", t, r) : t \in PollTimes, r \in Responses}
        \cup {Job("running", f, t, NoResponse) : f \in {"failed", "raise"}, t \in PollTimes}

\* an exception or a failure report of the video service reached generate_video
VideoFault(job) ==
    \/ job.create = "raise"
    \/ job.create = "running" /\ job.finish \in {"failed", "raise"}
    \/ /\ job.create = "done" \/ (job.finish = "done" /\ job.at < max_polls)
       /\ \/ job.response.kind # "videos"
          \/ \A i \in 1..Len(job.response.videos) : job.response.videos[i] # "saved"

\* what increment_enhanced_prompt_count does in start_enhancement_flow: it
\* returns, or raises the TypeError of None + 1 on a stored count of null
IncrementOutcomes == {"returns", "TypeError"}

\* the session of a user who answered every stage up to the last one
RECURSIVE Walk(_, _)
Walk(s, n) ==
    LET p == process_stage_input(s, s.current_stage, <<"a">>, FALSE, FALSE,
                                 Ok(<<"s">>)).session
    IN  IF n = 0 THEN p
        ELSE Walk(advance_to_next_stage(p, FALSE, Ok(<<"p">>)).session, n - 1)

InitGateway ==
    /\ \E started \in BOOLEAN :
          LET r == increment_enhanced_prompt_count(get_default_counters, NoFile, TRUE)
          IN  IF started
              THEN /\ enhancement_session =
                        Walk(start_enhancement_flow(DefaultSession, <<"i">>, 1),
                             Len(Stages) - 1)
                   /\ enhanced_prompts = 1
                   /\ now = 1
                   /\ counters = r.counters
                   /\ disk = r.disk
              ELSE /\ enhancement_session = DefaultSession
                   /\ enhanced_prompts = 0
                   /\ now = 0
                   /\ counters = get_default_counters
                   /\ disk = NoFile
    /\ client = FALSE
    /\ api_key = TRUE
    /\ mode = "chat"
    /\ confirm_reset = FALSE
    /\ op = NoOp
    /\ mark = None
    /\ saved_enhancement = None
    /\ loaded_from = Some(NoFile)
    /\ ledger_log = <<>>
    /\ ledger_ret = NoCall
    /\ pc = [s \in Sessions |-> "idle"]
    /\ tmp = [s \in Sessions |-> 0]
    /\ gw = NoRequest
    /\ requests = 0
    /\ history_shared = FALSE
    /\ messages = <<>>
    /\ enhanced_prompt_to_use = None
    /\ default_prompt = <<>>
    /\ thread_messages = [s \in Sessions |-> <<>>]
    /\ google_api_key \in BOOLEAN

\* one more request; what no gateway handler touches
Request ==
    /\ requests < MaxRequests
    /\ requests' = requests + 1
    /\ UNCHANGED <<client, api_key, mode, confirm_reset, op, mark,
                   loaded_from, ledger_log, ledger_ret, pc, tmp, thread_messages,
                   google_api_key>>

\* handle_chat_input with a message typed: the message is counted, then sent
HandleChatInput(outcome) ==
    /\ Request
    /\ api_key /\ mode = "chat"
    /\ LET i == increment_chat_count(counters, disk, TRUE)
           r == get_chatgpt_response(client, outcome)
           asked == Append(messages, ChatMessage("user", ChatPrompt))
       IN  /\ counters' = i.counters
           /\ disk' = i.disk
           /\ messages' = IF i.raised THEN messages
                          ELSE IF ~r.raised /\ r.ret = Stream /\ outcome.streams
                          THEN Append(asked, ChatMessage("assistant", outcome.text))
                          ELSE asked
           /\ gw' = IF i.raised
                    THEN Gw("chat", <<"'chat_messages'">>, TRUE, FALSE, FALSE)
                    ELSE Gw("chat", r.ret, r.raised, ~(client /\ outcome.ok),
                            ~r.raised /\ r.ret = Stream /\ outcome.streams)
    /\ UNCHANGED <<enhancement_session, enhanced_prompts, now,
                   enhanced_prompt_to_use, default_prompt>>
    /\ SavedAfter(FALSE)

\* handle_image_generation, "Generate Image" with a prompt entered
HandleImageGeneration(outcome) ==
    /\ Request
    /\ api_key /\ mode = "image"
    /\ LET r == generate_image(client, outcome, counters, disk)
       IN  /\ counters' = r.counters
           /\ disk' = r.disk
           /\ gw' = Gw("image", r.ret, r.raised, ~(client /\ outcome.ok),
                       ~r.raised /\ ~startswith_Error(r.ret))
           /\ messages' =
                  Append(messages,
                         IF startswith_Error(r.ret)
                         THEN ImageMessage(ImagePrompt, Some(r.ret), None, 0)
                         ELSE ImageMessage(ImagePrompt, None, Some(r.ret),
                                           Get(r.counters, "images_generated", 0)))
    /\ UNCHANGED <<enhancement_session, enhanced_prompts, now,
                   enhanced_prompt_to_use, default_prompt>>
    /\ SavedAfter(FALSE)


\* handle_video_generation, "Generate Video" with a prompt entered, for what
\* the video service does once it is called
HandleVideoGeneration(job, duration) ==
    /\ Request
    /\ api_key /\ mode = "video"
    /\ enhanced_prompt_to_use = None
    /\ \E g \in {generate_video(job, duration, counters, disk)} :
       \E h \in {handle_video_generation(google_api_key, g, VideoPrompt, duration,
                                         messages, counters, disk)} :
          /\ gw' = IF h.called
                   THEN [Gw("video", h.ret, g.raised, VideoFault(job),
                            ~g.raised /\ ~startswith_Error(h.ret))
                            EXCEPT !.polls = g.polls, !.job = job]
                   ELSE Gw("video_no_key", h.ret, FALSE, FALSE, FALSE)
          /\ messages' = h.messages
          /\ counters' = h.counters
          /\ disk' = h.disk
    /\ RenderVideoPrompt
    /\ UNCHANGED <<enhancement_session, enhanced_prompts, now>>
    /\ SavedAfter(FALSE)

\* "Start Enhancement" with an idea entered: start_enhancement_flow catches the
\* AttributeError of a missing method only; the TypeError is raised after
\* st.session_state.enhanced_prompts was counted up and leaves the function
\* before the session is touched
GatewayStart(initial_idea, incr) ==
    /\ Request
    /\ api_key /\ mode = "enhance"
    /\ ~enhancement_session.active
    /\ strip(initial_idea) # <<>>
    /\ enhanced_prompts < MaxStarts
    /\ enhanced_prompts' = enhanced_prompts + 1
    /\ IF incr = "returns"
       THEN LET r == increment_enhanced_prompt_count(counters, disk, TRUE)
            IN  /\ counters' = r.counters
                /\ disk' = r.disk
                /\ now' = now + 1
                /\ enhancement_session' =
                       start_enhancement_flow(enhancement_session, initial_idea, now + 1)
                /\ gw' = [Gw("start", <<>>, FALSE, FALSE, TRUE) EXCEPT !.count = r.ret]
       ELSE /\ gw' = Gw("start", <<"unsupported operand type(s) for +">>,
                        TRUE, TRUE, FALSE)
            /\ UNCHANGED <<enhancement_session, counters, disk, now>>
    /\ UNCHANGED <<messages, enhanced_prompt_to_use, default_prompt>>
    /\ SavedAfter(incr = "returns")

\* get_enhancement_suggestion and generate_final_prompt under their decorator
traced_get_enhancement_suggestion(outcome) ==
    trace_api_call(Result(get_enhancement_suggestion(outcome)))

traced_generate_final_prompt(outcome) ==
    trace_api_call(Result(generate_final_prompt(outcome)))

\* process_stage_input(current_stage, text, use_ai) on a session in progress
GatewaySubmit(in) ==
    /\ Request
    /\ api_key /\ mode = "enhance"
    /\ IsInProgress(enhancement_session)
    /\ strip(in.text) # <<>>
    /\ LET r == process_stage_input(enhancement_session,
                                    enhancement_session.current_stage,
                                    in.text, in.use_ai, client, in.sugg)
           called == r.calls # <<>>
           g == IF called
                THEN propagate(traced_get_enhancement_suggestion(in.sugg), r.ret[1])
                ELSE Result(<<>>)
       IN  /\ WithinBounds(r.session)
           /\ enhancement_session' = r.session
           /\ gw' = Gw("process_stage_input", g.ret, g.raised,
                       called /\ ~in.sugg.ok, ~g.raised)
    /\ UNCHANGED <<enhanced_prompts, now, counters, disk>>
    /\ UNCHANGED <<messages, enhanced_prompt_to_use, default_prompt>>
    /\ SavedAfter(FALSE)

\* generate_final_optimized_prompt() at the last stage, as advance_to_next_stage
\* calls it
GatewaySynthesize(synth) ==
    /\ Request
    /\ api_key /\ mode = "enhance"
    /\ IsInProgress(enhancement_session)
    /\ Answered(enhancement_session)
    /\ StageIndex(enhancement_session.current_stage) = Len(Stages) - 1
    /\ LET r == generate_final_optimized_prompt(enhancement_session, client, synth)
           called == r.calls # <<>>
           g == IF called
                THEN propagate(traced_generate_final_prompt(synth),
                               r.session.final_prompt[1])
                ELSE Result(<<>>)
       IN  /\ WithinBounds(r.session)
           /\ enhancement_session' = r.session
           /\ gw' = Gw("generate_final_optimized_prompt", g.ret, g.raised,
                       called /\ ~synth.ok, ~g.raised)
    /\ UNCHANGED <<enhanced_prompts, now, counters, disk>>
    /\ UNCHANGED <<messages, enhanced_prompt_to_use, default_prompt>>
    /\ SavedAfter(FALSE)

NextGateway ==
    \/ \E b \in BOOLEAN : EngineSetClient(b)
    \/ \E m \in Modes : SelectMode(m)
    \/ \E outcome \in ChatOutcomes : HandleChatInput(outcome)
    \/ \E outcome \in ImageOutcomes : HandleImageGeneration(outcome)
    \/ \E job \in Jobs, d \in VideoDurations : HandleVideoGeneration(job, d)
    \/ \E t \in IdeaTexts, incr \in IncrementOutcomes : GatewayStart(t, incr)
    \/ \E in \in StageInputs : GatewaySubmit(in)
    \/ \E synth \in SynthesisOutcomes : GatewaySynthesize(synth)

SpecGateway == InitGateway /\ [][NextGateway]_vars

----------------------------------------------------------------------------
(* The results view of a complete session and the video view: the prompt     *)
(* handed over, chosen from the history and used as the default of the       *)
(* video prompt                                                              *)

\* the texts the synthesis returned for the sessions that are complete
FinalTexts == {<<"p">>, <<"p", "2">>}

\* a session taken through every stage and the synthesis
Completed(text) ==
    generate_final_optimized_prompt(
        Walk(start_enhancement_flow(DefaultSession, <<"i">>, 1), Len(Stages) - 1),
        TRUE, Ok(text)).session

InitVideo ==
    /\ \E text \in FinalTexts : enhancement_session = Completed(text)
    /\ client = TRUE
    /\ api_key = TRUE
    /\ google_api_key \in BOOLEAN
    /\ mode = "enhance"
    /\ confirm_reset = FALSE
    /\ enhanced_prompts = 1
    /\ now = 1
    /\ op = NoOp
    /\ mark = None
    /\ saved_enhancement = None
    /\ history_shared = FALSE
    /\ LET r == increment_enhanced_prompt_count(get_default_counters, NoFile, TRUE)
       IN  counters = r.counters /\ disk = r.disk
    /\ loaded_from = Some(NoFile)
    /\ ledger_log = <<>>
    /\ ledger_ret = NoCall
    /\ pc = [s \in Sessions |-> "idle"]
    /\ tmp = [s \in Sessions |-> 0]
    /\ gw = NoRequest
    /\ requests = 0
    /\ messages = <<>>
    /\ enhanced_prompt_to_use = None
    /\ default_prompt = <<>>
    /\ thread_messages = [s \in Sessions |-> <<>>]

\* what the video service does for the videos requested in this view: a
\* video at once, a video at the first poll, or an exception
HandoffJobs ==
    {Job("done", "never", 0, [kind |-> "videos", videos |-> <<"saved">>]),
     Job("running", "done", 1, [kind |-> "videos", videos |-> <<"saved">>]),
     Job("raise", "never", 0, NoResponse)}

\* what the interactions with the handed-over prompt leave alone
HandoffFrame ==
    UNCHANGED <<enhancement_session, client, api_key, confirm_reset, enhanced_prompts,
                now, counters, disk, saved_enhancement, history_shared, loaded_from,
                ledger_log, ledger_ret, pc, tmp, gw, requests, thread_messages,
                google_api_key>>

\* the enhanced_prompt entries of a message list
Handoffs(msgs) == {i \in DOMAIN msgs : msgs[i].type = "enhanced_prompt"}

\* render_final_results, "Generate Video Now": the run ends with st.rerun(), and
\* the run that follows renders the video view
GenerateVideoNow ==
    /\ api_key /\ mode = "enhance"
    /\ IsComplete(enhancement_session)
    /\ Cardinality(Handoffs(messages)) < MaxHandoffs
    /\ messages' = Append(messages, EnhancedPromptMessage(enhancement_session))
    /\ mode' = "video"
    /\ RenderVideoPrompt
    /\ op' = Op("generate_video_now", enhancement_session.final_prompt[1], FALSE, <<>>)
    /\ Marked("generate_video_now")
    /\ HandoffFrame

\* display_video_history, "Generate Video" under the i-th message, an enhanced
\* prompt: the run ends with st.rerun() before handle_video_generation is reached
UseEnhancedPrompt(i) ==
    /\ api_key /\ mode = "video"
    /\ enhanced_prompt_to_use = None
    /\ i \in Handoffs(messages)
    /\ enhanced_prompt_to_use' = Some(messages[i].prompt)
    /\ op' = Op("use_enhanced_prompt", messages[i].prompt, FALSE, <<>>)
    /\ Marked("use_enhanced_prompt")
    /\ UNCHANGED <<messages, mode, default_prompt>>
    /\ HandoffFrame

\* the run that st.rerun() started: the video view is rendered
VideoRerun ==
    /\ api_key /\ mode = "video"
    /\ enhanced_prompt_to_use # None
    /\ RenderVideoPrompt
    /\ op' = Op("rerun", <<>>, FALSE, <<>>)
    /\ Marked("rerun")
    /\ UNCHANGED <<messages, mode>>
    /\ HandoffFrame

NextVideo ==
    \/ \E m \in {"video", "enhance"} : SelectMode(m)
    \/ GenerateVideoNow
    \/ \E i \in 1..MaxHandoffs + MaxRequests : UseEnhancedPrompt(i)
    \/ VideoRerun
    \/ \E job \in HandoffJobs, d \in VideoDurations : HandleVideoGeneration(job, d)
    \/ \E t \in IdeaTexts : OptimizeThisPrompt(t)
    \/ StartNewEnhancement

SpecVideo == InitVideo /\ [][NextVideo]_vars

----------------------------------------------------------------------------
(* Properties *)

IsPrefix(a, b) == Len(a) <= Len(b) /\ SubSeq(b, 1, Len(a)) = a

\* the entries that a step appended to the history
Appended(h1, h2) == SubSeq(h2, Len(h1) + 1, Len(h2))

HasCall(o, kind, ok) ==
    \E i \in 1..Len(o.calls) : o.calls[i].call = kind /\ o.calls[i].ok = ok

LastStage == Stages[Len(Stages)]

\* C1: after start(initialIdea) with a non-empty idea, from whatever session
\* state, the session is active at the first stage, stagesData is exactly
\* {initial_idea: initialIdea}, finalPrompt is unset and the history is the
\* single entry session_started.
C1_StartYieldsFreshSession ==
    op.name = "start" =>
        /\ strip(op.text) # <<>>
        /\ enhancement_session.active
        /\ enhancement_session.current_stage = Stages[1]
        /\ enhancement_session.stages_data = [k \in {"initial_idea"} |-> op.text]
        /\ enhancement_session.final_prompt = None
        /\ Len(enhancement_session.iteration_history) = 1
        /\ enhancement_session.iteration_history[1].action = "session_started"

\* a start that found a Complete session
C1_Witness == op.name = "start" /\ op.from = "complete"

\* C2: the advance on the last stage, all five stages answered and a credential
\* present, sets finalPrompt, puts the session in Complete, and the export
\* reports stages_completed = 5.
C2_LastAdvanceCompletes ==
    (op.name = "next" /\ op.stage = LastStage /\ strip(op.text) # <<>> /\ client) =>
        /\ enhancement_session.final_prompt # None
        /\ IsComplete(enhancement_session)
        /\ export_session_data(enhancement_session, now).metadata.stages_completed
               = Len(Stages)

\* C3: when the synthesis call fails, the session does not become Complete:
\* finalPrompt stays unset, no final_prompt_generated entry is appended and
\* the session stays InProgress at the last stage.
C3_SynthesisFailureStaysInProgress ==
    (op.name = "next" /\ HasCall(op, "synthesis", FALSE)) =>
        /\ enhancement_session.final_prompt = None
        /\ IsInProgress(enhancement_session)
        /\ enhancement_session.current_stage = LastStage
        /\ \A i \in 1..Len(enhancement_session.iteration_history) :
               enhancement_session.iteration_history[i].action # "final_prompt_generated"

\* C4: when the suggestion call of a submitStage fails, that submitStage
\* appends no ai_suggestion entry, and stagesData and currentStage are what
\* a submitStage without a suggestion request gives.
C4_FailedSuggestionLeavesNoEntry ==
    [][(op'.name = "next" /\ HasCall(op', "suggestion", FALSE)) =>
          /\ \A i \in 1..Len(Appended(enhancement_session.iteration_history,
                                      enhancement_session'.iteration_history)) :
                 Appended(enhancement_session.iteration_history,
                          enhancement_session'.iteration_history)[i].action
                     # "ai_suggestion"
          /\ enhancement_session'.stages_data =
                 DictSet(enhancement_session.stages_data,
                         enhancement_session.current_stage, op'.text)
          /\ enhancement_session'.current_stage =
                 IF enhancement_session.current_stage = LastStage THEN LastStage
                 ELSE StageAt(StageIndex(enhancement_session.current_stage) + 1)
      ]_vars

\* C5: while the session stays active, over any interaction, the history
\* keeps every entry it has: it only grows at its end.
C5_HistoryAppendOnlyWhileActive ==
    [][(enhancement_session.active /\ enhancement_session'.active) =>
          IsPrefix(enhancement_session.iteration_history,
                   enhancement_session'.iteration_history)]_vars

SessionDataUnchanged ==
    /\ enhancement_session'.current_stage = enhancement_session.current_stage
    /\ enhancement_session'.stages_data = enhancement_session.stages_data
    /\ enhancement_session'.final_prompt = enhancement_session.final_prompt
    /\ enhancement_session'.iteration_history = enhancement_session.iteration_history

\* C6: once finalPrompt is set, no interaction other than reset or a start
\* changes currentStage, stagesData or finalPrompt or appends to the history
\* (so no stage submission, advance or retreat is accepted).
C6_CompleteIsTerminal ==
    [][(enhancement_session.active /\ enhancement_session.final_prompt # None) =>
          (op'.name \in {"reset", "start"} \/ SessionDataUnchanged)]_vars

\* C7: retreat() followed immediately by advance() gives back the stage and
\* the answers the session had before the retreat.
C7_RetreatAdvanceRoundTrip ==
    (op.name = "advance" /\ mark # None) =>
        /\ enhancement_session.current_stage = mark[1].current_stage
        /\ enhancement_session.stages_data = mark[1].stages_data

\* a round trip from the third stage or later, with answers stored
C7_Witness ==
    /\ op.name = "advance" /\ mark # None
    /\ StageIndex(mark[1].current_stage) >= 2
    /\ mark[1].current_stage \in DOMAIN enhancement_session.stages_data

\* C8: a submission for a stage that already has an answer replaces that
\* answer, leaves the other answers alone, and strictly lengthens the history
\* while keeping every earlier entry in place.
C8_ResubmitOverwritesAndAppends ==
    [][(/\ op'.name = "next"
        /\ strip(op'.text) # <<>>
        /\ enhancement_session.current_stage \in DOMAIN enhancement_session.stages_data) =>
          /\ DOMAIN enhancement_session'.stages_data = DOMAIN enhancement_session.stages_data
          /\ \A k \in DOMAIN enhancement_session.stages_data :
                 enhancement_session'.stages_data[k] =
                     IF k = enhancement_session.current_stage THEN op'.text
                     ELSE enhancement_session.stages_data[k]
          /\ Len(enhancement_session'.iteration_history)
                 > Len(enhancement_session.iteration_history)
          /\ IsPrefix(enhancement_session.iteration_history,
                      enhancement_session'.iteration_history)
      ]_vars

\* a stage submitted twice with different answers: both stage_completed
\* entries are in the history and stagesData holds the later answer
C8_Witness ==
    /\ op.name = "next"
    /\ \E i, j \in 1..Len(enhancement_session.iteration_history) :
          /\ i < j
          /\ enhancement_session.iteration_history[i].action = "stage_completed"
          /\ enhancement_session.iteration_history[j].action = "stage_completed"
          /\ enhancement_session.iteration_history[i].stage = op.stage
          /\ enhancement_session.iteration_history[j].stage = op.stage
          /\ enhancement_session.iteration_history[i].data.user_input # op.text
          /\ enhancement_session.iteration_history[j].data.user_input = op.text
          /\ enhancement_session.stages_data[op.stage] = op.text

\* C9: a submission whose text is empty or only whitespace changes nothing
\* of the session and makes no gateway call.
C9_BlankInputRejected ==
    [][(op'.name = "next" /\ strip(op'.text) = <<>>) =>
          /\ enhancement_session' = enhancement_session
          /\ op'.calls = <<>>]_vars

\* a whitespace-only submission with the suggestion checkbox set, in a session
\* that has answers
C9_Witness ==
    /\ op.name = "next" /\ op.text = <<" ">> /\ op.use_ai
    /\ Len(enhancement_session.iteration_history) > 1

\* C10: synthesize without a client reports an error and changes nothing of
\* the session.
C10_SynthesizeWithoutClient ==
    [][(/\ ~client
        /\ \/ op'.name = "synthesize"
           \/ op'.name = "advance" /\ enhancement_session.current_stage = LastStage) =>
          /\ enhancement_session' = enhancement_session
          /\ op'.error
          /\ op'.calls = <<>>]_vars

\* synthesize was called at the last stage without a client
C10_Witness ==
    /\ ~client
    /\ op.name \in {"synthesize", "advance"} /\ op.stage = LastStage /\ op.error
    /\ enhancement_session.current_stage = LastStage
    /\ enhancement_session.final_prompt = None

\* what an export reports apart from its two clock readings
ExportData(e) ==
    [total_iterations |-> e.metadata.total_iterations,
     stages_completed |-> e.metadata.stages_completed,
     initial_idea |-> e.initial_idea,
     final_prompt |-> e.final_prompt,
     refinement_stages |-> e.refinement_stages,
     iteration_history |-> e.iteration_history]

\* C11 as stated: an export that follows an export, with no mutation between
\* them, equals it in every field but export_timestamp, and an export changes
\* no field of the session.
C11_Original ==
    [][op'.name = "save" =>
          /\ enhancement_session' = enhancement_session
          /\ op.name = "save" =>
                /\ ExportData(saved_enhancement'[1]) = ExportData(saved_enhancement[1])
                /\ saved_enhancement'[1].metadata.session_duration_minutes =
                       saved_enhancement[1].metadata.session_duration_minutes]_vars

\* C11 amended: an export that follows an export, with no mutation between
\* them, equals it in every field but export_timestamp and
\* session_duration_minutes, and an export changes no field of the session.
C11_ExportTwice ==
    [][op'.name = "save" =>
          /\ enhancement_session' = enhancement_session
          /\ op.name = "save" =>
                ExportData(saved_enhancement'[1]) = ExportData(saved_enhancement[1])]_vars

\* two exports in a row at different clock readings, of a session with answers
C11_Witness ==
    /\ op.name = "save" /\ mark # None
    /\ mark[1].metadata.export_timestamp # saved_enhancement[1].metadata.export_timestamp
    /\ saved_enhancement[1].metadata.stages_completed > 0

\* C12: an export of a session in progress without a final prompt has
\* final_prompt = "", stages_completed = the number of stagesData keys other
\* than initial_idea, a refinement_stages map without initial_idea, a total
\* iteration count equal to the length of the history, and duration 0 when
\* startTime is unset.
C12_ExportInProgress ==
    (op.name = "save" /\ enhancement_session.final_prompt = None) =>
        LET e == saved_enhancement[1]
            s == enhancement_session
        IN  /\ e.final_prompt = Some(<<>>)
            /\ e.metadata.stages_completed =
                   Cardinality(DOMAIN s.stages_data \ {"initial_idea"})
            /\ DOMAIN e.refinement_stages = DOMAIN s.stages_data \ {"initial_idea"}
            /\ e.metadata.total_iterations = Len(s.iteration_history)
            /\ s.start_time = None => e.metadata.session_duration_minutes = 0

\* C13: a performed reset sets active = false, empties stagesData and the
\* history, and leaves currentStage, startTime and finalPrompt as they were.
C13_ResetFrame ==
    [][op'.name = "reset" =>
          /\ ~enhancement_session'.active
          /\ enhancement_session'.stages_data = EmptyDict
          /\ enhancement_session'.iteration_history = <<>>
          /\ enhancement_session'.current_stage = enhancement_session.current_stage
          /\ enhancement_session'.start_time = enhancement_session.start_time
          /\ enhancement_session'.final_prompt = enhancement_session.final_prompt]_vars

\* a reset of a Complete session: the final prompt and the last stage stay
C13_Witness ==
    /\ op.name = "reset" /\ op.from = "complete"
    /\ enhancement_session.final_prompt # None
    /\ enhancement_session.current_stage = LastStage
    /\ enhancement_session.start_time # None

\* C14: in every reachable state with active = false, stagesData and the
\* history are empty.
C14_InactiveIsEmpty ==
    ~enhancement_session.active =>
        /\ enhancement_session.stages_data = EmptyDict
        /\ enhancement_session.iteration_history = <<>>

\* C15: in every reachable state with active = true, currentStage is one of
\* the five stage identifiers.
C15_CurrentStageValid ==
    enhancement_session.active => enhancement_session.current_stage \in StageSet

\* an active session that an advance on the last stage left at the last stage
C15_Witness ==
    /\ enhancement_session.active
    /\ enhancement_session.current_stage = LastStage
    /\ op.name = "next" /\ op.stage = LastStage /\ op.calls # <<>>

\* the ledger was constructed with the all-zero defaults
FromDefault == loaded_from # None /\ loaded_from[1].kind \in {"missing", "garbled"}

\* the durations of the incrementVideos calls made, in order
VideoCalls ==
    LET q == SelectSeq(ledger_log, LAMBDA e : e.name = "increment_video_count")
    IN  [i \in 1..Len(q) |-> q[i].arg]

CountOf(q, d) == Cardinality({i \in 1..Len(q) : q[i] = d})

\* C16: from a default ledger, getStatistics reports total_videos = number of
\* incrementVideos calls, the total duration = the sum of their durations,
\* videos_<d>s and the histogram = the number of calls with each d, and the
\* average = total / number of calls (0 without calls).
C16_StatisticsOfVideos ==
    (FromDefault /\ ledger_ret.name = "get_statistics") =>
        LET st == ledger_ret.ret
            n == Len(VideoCalls)
        IN  /\ ~ledger_ret.raised
            /\ st.total_videos = n
            /\ st.total_video_duration_seconds = SumSeq(VideoCalls)
            /\ \A d \in Durations :
                  /\ st[duration_key(d)] = CountOf(VideoCalls, d)
                  /\ Get(st.video_count_by_duration, d, 0) = CountOf(VideoCalls, d)
            /\ DOMAIN st.video_count_by_duration \subseteq Durations
            /\ RatioEq(st.average_video_duration_seconds,
                       IF n = 0 THEN Ratio(0, 1) ELSE Ratio(SumSeq(VideoCalls), n))
            /\ st.average_video_duration_seconds.den > 0

\* incrementVideos(5), incrementVideos(8), getStatistics: 1, 1, 2, 13 / 2 and 13
C16_Witness ==
    /\ FromDefault /\ ledger_ret.name = "get_statistics"
    /\ VideoCalls = <<5, 8>>
    /\ ledger_ret.ret.videos_5s = 1 /\ ledger_ret.ret.videos_8s = 1
    /\ ledger_ret.ret.total_videos = 2
    /\ ledger_ret.ret.average_video_duration_seconds = Ratio(13, 2)
    /\ ledger_ret.ret.total_video_duration_seconds = 13

\* C17: a ledger loaded from a record with fields missing holds every field,
\* and no later call on it raises.
C17_PartialRecordLoads ==
    (loaded_from # None /\ loaded_from[1].kind = "record") =>
        /\ ~ledger_ret.raised
        /\ CounterKeys \subseteq DOMAIN counters

\* C18: with the file missing or not parseable the construction does not
\* raise and leaves the all-zero defaults.
C18_MissingOrCorruptedFile ==
    (/\ ledger_ret.name = "load"
     /\ loaded_from[1].kind \in {"missing", "garbled", "undecodable"}) =>
        /\ ~ledger_ret.raised
        /\ counters = get_default_counters

\* the counter that each increment counts in
CounterOf(name) ==
    CASE name = "increment_chat_count" -> "chat_messages"
      [] name = "increment_image_count" -> "images_generated"
      [] name = "increment_video_count" -> "videos_generated"
      [] name = "increment_enhanced_prompt_count" -> "enhanced_prompts"

\* C19: each increment raises its own counter by exactly 1, returns the new
\* value, and with a working file write leaves the file equal to the
\* counters in memory.
C19_IncrementContract ==
    [][ledger_log' # ledger_log =>
          LET key == CounterOf(ledger_ret'.name)
          IN  /\ ~ledger_ret'.raised
              /\ key \in DOMAIN counters'
              /\ counters'[key] = Get(counters, key, 0) + 1
              /\ ledger_ret'.ret = counters'[key]
              /\ ledger_ret'.write_ok => disk' = File(counters')]_vars

\* C20: when no increment is under way, the counter in memory and the
\* counter in the file both equal the number of increments made.
C20_NoLostUpdate ==
    (\A s \in Sessions : pc[s] = "idle") =>
        /\ counters["chat_messages"] = Len(ledger_log)
        /\ ledger_log # <<>> =>
              /\ disk.kind = "record"
              /\ disk.data["chat_messages"] = Len(ledger_log)

\* C22: generate_video polls the operation at most 60 times; for a job that
\* is still running at the 60th poll it returns the timeout error; and the
\* timeout error is not the error it returns for a job that reports a failure.
C22_PollCeiling ==
    gw.name = "video" =>
        /\ gw.polls <= max_polls
        /\ (gw.job.create = "running" /\ gw.job.finish = "never") =>
              gw.polls = max_polls /\ gw.ret = VideoTimeout
        /\ (gw.job.create = "running" /\ gw.job.finish = "failed") =>
              gw.ret = VideoFailed(gw.job.text) /\ gw.ret # VideoTimeout

\* a job that never ends: 60 polls, then the timeout error
C22_Witness ==
    /\ gw.name = "video"
    /\ gw.job.create = "running" /\ gw.job.finish = "never"
    /\ gw.polls = max_polls
    /\ gw.ret = VideoTimeout
    /\ ~gw.success

\* the requests that call a gateway operation
GatewayCalls ==
    {"chat", "image", "video", "process_stage_input", "generate_final_optimized_prompt"}

LedgerKey(name) ==
    CASE name = "chat" -> "chat_messages"
      [] name = "image" -> "images_generated"
      [] name = "video" -> "videos_generated"
      [] name = "start" -> "enhanced_prompts"

\* C24: a chat, image or video request that ends in an error, and a request
\* that generates nothing countable, leaves the counters as they were; a
\* successful chat, image or video generation and a start raise their
\* counter by exactly 1.
C24_LedgerOnSuccessOnly ==
    [][requests' # requests =>
          /\ (gw'.name \in {"chat", "image", "video", "video_no_key"} /\ ~gw'.success) =>
                counters' = counters
          /\ gw'.name \in {"process_stage_input", "generate_final_optimized_prompt"} =>
                counters' = counters
          /\ (gw'.name \in {"chat", "image", "video", "start"} /\ gw'.success) =>
                counters'[LedgerKey(gw'.name)] = counters[LedgerKey(gw'.name)] + 1]_vars

\* C25: a start with a non-blank idea raises nothing and leaves the session
\* active with the session_started entry, also when the increment of the
\* enhanced-prompt counter failed (the count 1 is then used).
C25_StartAlwaysSucceeds ==
    gw.name = "start" =>
        /\ ~gw.raised
        /\ enhancement_session.active
        /\ Len(enhancement_session.iteration_history) = 1
        /\ enhancement_session.iteration_history[1].action = "session_started"
        /\ gw.failed => gw.count = 1

\* the total that the last read returned
TotalRead(r) ==
    IF r.name = "get_statistics" THEN r.ret.total_video_duration_seconds ELSE r.ret

\* what a read can change, and what it returns as the total
ReadObserved ==
    <<counters, disk, ledger_log, loaded_from, ledger_ret.name, ledger_ret.raised,
      ledger_ret.write_ok, TotalRead(ledger_ret)>>

\* C21: a read of the total video duration, on its own or in getStatistics,
\* does not raise and returns the sum of the logged durations; a stored
\* total that differed is set to that sum and the record is written again
\* (the write being the best-effort write of every mutation); a stored total
\* that agreed leaves memory and file as they were.
C21_ReadReconciles ==
    [][ledger_ret'.name \in {"get_statistics", "get_total_video_duration"} =>
          LET sum == SumSeq(Get(counters, "video_durations", <<>>))
              stored == Get(counters, "total_video_duration_seconds", 0)
          IN  /\ ~ledger_ret'.raised
              /\ TotalRead(ledger_ret') = sum
              /\ Get(counters', "total_video_duration_seconds", 0) = sum
              /\ stored # sum =>
                    /\ counters' = DictSet(counters, "total_video_duration_seconds", sum)
                    /\ ledger_ret'.write_ok => disk' = File(counters')
              /\ stored = sum => counters' = counters /\ disk' = disk]_ReadObserved

\* a record of an older version (a log of one 8 s video, no stored total)
\* was loaded with the total 0; the first read returned 8, stored it and
\* wrote the record
C21_Witness ==
    /\ ledger_ret.name \in {"get_statistics", "get_total_video_duration"}
    /\ loaded_from # None /\ loaded_from[1].kind = "record"
    /\ "total_video_duration_seconds" \notin DOMAIN loaded_from[1].data
    /\ ledger_log = <<>>
    /\ TotalRead(ledger_ret) = 8
    /\ counters["total_video_duration_seconds"] = 8
    /\ disk = File(counters)

\* C26: an advance at a stage before the last changes current_stage to the
\* next stage and nothing else (no history entry); an advance at the last
\* stage leaves current_stage and runs the synthesis (one synthesis call and
\* its final_prompt_generated entry with a client, the error message
\* without); a retreat changes current_stage to the stage before and nothing
\* else; and no interaction but a start moves current_stage by more than one
\* position.
C26_OneStageAtATime ==
    [][LET s == enhancement_session
           t == enhancement_session'
           i == StageIndex(s.current_stage)
           j == StageIndex(t.current_stage)
       IN  /\ (op'.name = "advance" /\ i < Len(Stages) - 1) =>
                  t = [s EXCEPT !.current_stage = StageAt(i + 1)]
           /\ (op'.name = "advance" /\ i = Len(Stages) - 1) =>
                  /\ j = i
                  /\ client =>
                        /\ Len(op'.calls) = 1 /\ op'.calls[1].call = "synthesis"
                        /\ t.final_prompt # None
                        /\ Len(Appended(s.iteration_history, t.iteration_history)) = 1
                        /\ t.iteration_history[Len(t.iteration_history)].action
                              = "final_prompt_generated"
                  /\ ~client => t = s /\ op'.error
           /\ op'.name = "previous" =>
                  i >= 1 /\ t = [s EXCEPT !.current_stage = StageAt(i - 1)]
           /\ op'.name # "start" => (j - i) \in {-1, 0, 1}]_vars

\* an advance at the last stage ran the synthesis and left the stage, after an
\* earlier advance had moved the session on
C26_Witness ==
    /\ op.name = "advance" /\ op.stage = LastStage
    /\ HasCall(op, "synthesis", TRUE)
    /\ enhancement_session.current_stage = LastStage
    /\ enhancement_session.final_prompt # None

\* C27: "Previous" at a stage after the first sets current_stage to the stage
\* before and leaves stages_data (the answer of the stage left included),
\* iteration_history, final_prompt, start_time and active as they were; at
\* the first stage the button is disabled and nothing changes.
C27_RetreatFrame ==
    [][op'.name = "previous" =>
          LET s == enhancement_session
              t == enhancement_session'
              i == StageIndex(s.current_stage)
          IN  /\ i >= 1
              /\ t.current_stage = StageAt(i - 1)
              /\ t.stages_data = s.stages_data
              /\ t.iteration_history = s.iteration_history
              /\ t.final_prompt = s.final_prompt
              /\ t.start_time = s.start_time
              /\ t.active = s.active]_vars

\* a retreat that left a stage whose answer is stored, and kept it
C27_Witness ==
    /\ op.name = "previous"
    /\ op.stage \in DOMAIN enhancement_session.stages_data
    /\ enhancement_session.stages_data[op.stage] = <<"a">>
    /\ StageIndex(enhancement_session.current_stage) = StageIndex(op.stage) - 1

\* C28: process_stage_input leaves current_stage, active, start_time and
\* final_prompt as they were, with or without a suggestion requested and
\* whether the suggestion call returns or fails.
C28_SubmitDoesNotAdvance ==
    [][op'.name = "submit" =>
          /\ enhancement_session'.current_stage = enhancement_session.current_stage
          /\ enhancement_session'.active = enhancement_session.active
          /\ enhancement_session'.start_time = enhancement_session.start_time
          /\ enhancement_session'.final_prompt = enhancement_session.final_prompt]_vars

\* a submission at the second stage whose suggestion call failed
C28_Witness ==
    /\ op.name = "submit" /\ op.use_ai
    /\ HasCall(op, "suggestion", FALSE)
    /\ op.stage = Stages[2]
    /\ enhancement_session.current_stage = Stages[2]
    /\ ~Truthy(enhancement_session.final_prompt)

\* C29: process_stage_input with use_ai_suggestion and a client makes exactly
\* one suggestion call, for its stage and text, with the whole stages_data
\* after the write as context, and appends the ai_suggestion entry of the
\* stage directly after the stage_completed entry; otherwise it makes no call
\* and appends the stage_completed entry only.
C29_SuggestionAfterWrite ==
    [][op'.name = "submit" =>
          LET s == enhancement_session
              t == enhancement_session'
              stage == s.current_stage
              new == Appended(s.iteration_history, t.iteration_history)
          IN  /\ IsPrefix(s.iteration_history, t.iteration_history)
              /\ IF op'.use_ai /\ client
                 THEN /\ Len(op'.calls) = 1
                      /\ op'.calls[1].call = "suggestion"
                      /\ op'.calls[1].stage = stage
                      /\ op'.calls[1].user_input = op'.text
                      /\ op'.calls[1].context = DictSet(s.stages_data, stage, op'.text)
                      /\ op'.calls[1].context = t.stages_data
                      /\ Len(new) = 2
                      /\ new[1].action = "stage_completed" /\ new[1].stage = stage
                      /\ new[2].action = "ai_suggestion" /\ new[2].stage = stage
                 ELSE /\ op'.calls = <<>>
                      /\ Len(new) = 1
                      /\ new[1].action = "stage_completed" /\ new[1].stage = stage]_vars

\* a suggestion asked at the second stage with the idea, the first answer and
\* the answer just given as context
C29_Witness ==
    /\ op.name = "submit" /\ op.use_ai /\ client
    /\ Len(op.calls) = 1
    /\ DOMAIN op.calls[1].context = {"initial_idea", Stages[1], Stages[2]}
    /\ enhancement_session.iteration_history[Len(enhancement_session.iteration_history)].action
          = "ai_suggestion"

\* the lines of an increment before its _save_counters() do not raise
ReachesSave(name, c) ==
    CASE name = "increment_chat_count" -> "chat_messages" \in DOMAIN c
      [] name = "increment_image_count" -> "images_generated" \in DOMAIN c
      [] name = "increment_video_count" ->
            {"videos_generated", "video_durations"} \subseteq DOMAIN c
      [] name = "increment_enhanced_prompt_count" -> TRUE

\* C30: an increment whose write of the counter file fails does not raise,
\* returns the new count, and leaves the incremented counter in memory (the
\* file stays as it was).
C30_FailedWriteNotFatal ==
    [][(/\ ledger_log' # ledger_log
        /\ ~ledger_ret'.write_ok
        /\ ReachesSave(ledger_ret'.name, counters)) =>
          LET key == CounterOf(ledger_ret'.name)
          IN  /\ ~ledger_ret'.raised
              /\ ledger_ret'.ret = Get(counters, key, 0) + 1
              /\ counters'[key] = ledger_ret'.ret
              /\ disk' = disk]_vars

\* two chat increments whose writes both failed: 2 in memory, no file
C30_Witness ==
    /\ Len(ledger_log) = 2
    /\ \A i \in 1..2 : ledger_log[i].name = "increment_chat_count"
    /\ ~ledger_ret.write_ok /\ ~ledger_ret.raised
    /\ ledger_ret.ret = 2
    /\ counters["chat_messages"] = 2
    /\ disk = NoFile

\* C31: "Generate Video" clicked while st.session_state.google_api_key is
\* empty ends with the error of the missing key before generate_video is
\* called: no message is appended, the counters and the counter file are
\* unchanged and the enhancement session is unchanged.
C31_NoKeyAborts ==
    [][(requests' # requests /\ mode = "video" /\ ~google_api_key) =>
          /\ gw'.name = "video_no_key"
          /\ gw'.ret = NoGoogleKey
          /\ messages' = messages
          /\ counters' = counters
          /\ disk' = disk
          /\ enhancement_session' = enhancement_session]_vars

\* a video requested without a key from the view that holds a handed-over
\* prompt of a complete session
C31_Witness ==
    /\ gw.name = "video_no_key"
    /\ ~google_api_key
    /\ requests = 1
    /\ Handoffs(messages) # {}
    /\ IsComplete(enhancement_session)

\* C32: "Generate Video Now" in the results view appends one enhanced_prompt
\* message whose prompt is the session's final_prompt, sets the mode to video
\* and leaves the enhancement session; "Generate Video" under that message
\* makes its prompt the pending one; the next run of the video view shows it
\* as the default of the video prompt and deletes the pending one, and the
\* run of the video view after that shows an empty default.
C32_HandOff ==
    [][/\ (op' # op /\ op'.name = "generate_video_now") =>
             /\ messages' = Append(messages, messages'[Len(messages')])
             /\ messages'[Len(messages')].type = "enhanced_prompt"
             /\ messages'[Len(messages')].prompt = enhancement_session.final_prompt[1]
             /\ mode' = "video"
             /\ enhancement_session' = enhancement_session
       /\ (op' # op /\ op'.name = "use_enhanced_prompt") =>
             /\ \E i \in Handoffs(messages) :
                   enhanced_prompt_to_use' = Some(messages[i].prompt)
             /\ messages' = messages
             /\ enhancement_session' = enhancement_session
       /\ enhanced_prompt_to_use # None =>
             /\ default_prompt' = enhanced_prompt_to_use[1]
             /\ enhanced_prompt_to_use' = None
             /\ messages' = messages
       /\ (enhanced_prompt_to_use = None /\ mode' = "video"
             /\ (mode # "video" \/ requests' # requests)) =>
             /\ default_prompt' = <<>>
             /\ enhanced_prompt_to_use' = None]_vars

\* the run after the choice: the prompt of the handed-over message is the
\* default of the video prompt and nothing is pending
C32_Witness ==
    /\ op.name = "rerun"
    /\ mode = "video"
    /\ enhanced_prompt_to_use = None
    /\ default_prompt # <<>>
    /\ \E i \in Handoffs(messages) :
          /\ messages[i].prompt = default_prompt
          /\ Some(default_prompt) = enhancement_session.final_prompt

\* a job that is seen done at a poll and has a video that can be saved
DoneWithVideo(job) ==
    /\ job.create = "running" /\ job.finish = "done"
    /\ job.response.kind = "videos"
    /\ \E i \in 1..Len(job.response.videos) : job.response.videos[i] = "saved"

\* C33: for a job that is seen done with a video to download at poll k, for
\* every k from 1 to max_polls, generate_video returns the file it saved and
\* counts one more video, and does not return the timeout error.
C33_DoneAtAnyPoll ==
    [][(requests' # requests /\ gw'.name = "video" /\ DoneWithVideo(gw'.job)
          /\ gw'.job.at \in 1..max_polls) =>
          /\ gw'.ret # VideoTimeout
          /\ ~startswith_Error(gw'.ret)
          /\ gw'.polls = gw'.job.at
          /\ counters'["videos_generated"] = counters["videos_generated"] + 1]_vars

\* the same for the polls before the last one allowed
C33_DoneBeforeLastPoll ==
    [][(requests' # requests /\ gw'.name = "video" /\ DoneWithVideo(gw'.job)
          /\ gw'.job.at \in 1..(max_polls - 1)) =>
          /\ gw'.ret # VideoTimeout
          /\ ~startswith_Error(gw'.ret)
          /\ gw'.polls = gw'.job.at
          /\ counters'["videos_generated"] = counters["videos_generated"] + 1]_vars

\* C34: a session reset is performed only as the second of two consecutive
\* "Reset Session" clicks: the interaction just before the click that clears the
\* session is the click that asked for confirmation.
C34_ResetOnlyAfterAsk ==
    [][(op' # op /\ op'.name = "reset") => op.name = "reset_asked"]_vars

\* the stages that precede the current one
Preceding(s) == {Stages[i] : i \in 1..StageIndex(s.current_stage)}

\* the keys of stages_data of an active session
C35_Keys ==
    LET s == enhancement_session
    IN  s.active =>
            /\ Preceding(s) \subseteq DOMAIN s.stages_data
            /\ (s.final_prompt # None => StageSet \subseteq DOMAIN s.stages_data)
            /\ DOMAIN s.stages_data \subseteq {"initial_idea"} \cup StageSet

\* a start stores the idea it is given; no later step of the session changes it
C35_Idea ==
    /\ (op' # op /\ op'.name = "start") =>
           enhancement_session'.stages_data["initial_idea"] = op'.text
    /\ (enhancement_session.active /\ enhancement_session'.active
        /\ ~(op' # op /\ op'.name = "start")) =>
           enhancement_session'.stages_data["initial_idea"] =
               enhancement_session.stages_data["initial_idea"]

\* C35: in every state with an active session every stage before current_stage has
\* an answer in stages_data, a set final_prompt comes with answers for all five
\* stages, the keys of stages_data are initial_idea and stage identifiers only, and
\* initial_idea keeps the value given to the start for the whole session.
C35_StagesData == []C35_Keys /\ [][C35_Idea]_vars

C35_Witness ==
    /\ enhancement_session.active
    /\ enhancement_session.final_prompt # None
    /\ enhancement_session.current_stage = "polish"
    /\ DOMAIN enhancement_session.stages_data = {"initial_idea"} \cup StageSet
    /\ enhanced_prompts = 2

\* C36: in every state with an active session the history is non-empty, its first
\* entry is the only session_started entry, and every ai_suggestion entry directly
\* follows a stage_completed entry of the same stage.
C36_HistoryShape ==
    LET h == enhancement_session.iteration_history
    IN  enhancement_session.active =>
            /\ Len(h) >= 1
            /\ h[1].action = "session_started"
            /\ \A i \in 2..Len(h) : h[i].action # "session_started"
            /\ \A i \in 1..Len(h) :
                   h[i].action = "ai_suggestion" =>
                       /\ i > 1
                       /\ h[i-1].action = "stage_completed"
                       /\ h[i-1].stage = h[i].stage

C36_Witness ==
    LET h == enhancement_session.iteration_history
    IN  /\ enhancement_session.active
        /\ enhanced_prompts = 2
        /\ \E i \in 1..Len(h) : h[i].action = "ai_suggestion"

\* the positions of the final_prompt_generated entries
FinalEntries(h) == {i \in 1..Len(h) : h[i].action = "final_prompt_generated"}

\* C37: an active session has at most one final_prompt_generated entry, whatever
\* text the synthesis returned; when it exists it is the last entry, its payload is
\* final_prompt, and the session is shown as complete.
C37_OneFinalEntry ==
    LET s == enhancement_session
        h == s.iteration_history
    IN  s.active =>
            /\ Cardinality(FinalEntries(h)) <= 1
            /\ FinalEntries(h) # {} =>
                   /\ FinalEntries(h) = {Len(h)}
                   /\ s.final_prompt = Some(h[Len(h)].data.final_prompt)
                   /\ IsComplete(s)

\* C38: after "Use AI suggestion instead" is chosen for the suggestion shown for a
\* stage, stages_data of that stage is the suggestion text.
C38_SuggestionReplacesAnswer ==
    op.name = "use_ai_suggestion" =>
        enhancement_session.stages_data[op.stage] = op.text

\* C39: the export stored by "Save Progress" is a snapshot: a later submission,
\* advance, retreat or synthesis on the session changes no field of it.
C39_SavedIsSnapshot ==
    [][(saved_enhancement # None /\ op' # op /\ op'.name \in {"next", "previous"})
           => saved_enhancement' = saved_enhancement]_vars

\* the video messages of the two sessions, by session and position
VideoEntries == {e \in Sessions \X (1..MaxIncrements + 1) : e[2] <= Len(thread_messages[e[1]])}

\* the number of a message is the value the session's own increment returned
C40_OwnReturn ==
    \A s \in Sessions :
        thread_messages'[s] # thread_messages[s] =>
            thread_messages'[s][Len(thread_messages'[s])].number = tmp[s]

\* no two video messages carry the same number
C40_Distinct ==
    \A e, f \in VideoEntries :
        e # f => thread_messages[e[1]][e[2]].number # thread_messages[f[1]][f[2]].number

\* C40: with two sessions generating videos at the same time, the global video
\* number of each video message is the count its own increment_video_count call
\* returned, and no two video messages carry the same number.
C40_NumbersAreOwn == [][C40_OwnReturn]_vars /\ []C40_Distinct

====
